---- MODULE Spec2Model ----
(***************************************************************************)
(* The ingestion pipeline of financial-data-adapter: the normalizers and   *)
(* the row validator (adapter/normalizers.py, adapter/validators.py), the  *)
(* schema registry (adapter/schemas.py) and the orchestrator               *)
(* IngestionService.run_ingestion (adapter/ingestion.py) with the          *)
(* relational store, the Batch records and the ClickHouse store it drives. *)
(*                                                                         *)
(* Python strings are sequences of one-character strings.  Python values   *)
(* of several types are records tagged by the field k.                     *)
(***************************************************************************)
EXTENDS Integers, Sequences, FiniteSets, TLC

(***************************************************************************)
(* Strings                                                                 *)
(***************************************************************************)
LowerChars == <<"a","b","c","d","e","f","g","h","i","j","k","l","m",
                "n","o","p","q","r","s","t","u","v","w","x","y","z">>
UpperChars == <<"A","B","C","D","E","F","G","H","I","J","K","L","M",
                "N","O","P","Q","R","S","T","U","V","W","X","Y","Z">>
DigitChars == <<"0","1","2","3","4","5","6","7","8","9">>

SeqMin(S) == CHOOSE x \in S : \A y \in S : x <= y
SeqMax(S) == CHOOSE x \in S : \A y \in S : x >= y

IsIn(c, chars) == \E i \in 1..Len(chars) : chars[i] = c
PosIn(c, chars) == CHOOSE i \in 1..Len(chars) : chars[i] = c

\* str.upper() and str.lower(), one character
upper_char(c) == IF IsIn(c, LowerChars) THEN UpperChars[PosIn(c, LowerChars)] ELSE c
lower_char(c) == IF IsIn(c, UpperChars) THEN LowerChars[PosIn(c, UpperChars)] ELSE c

upper(s) == [i \in 1..Len(s) |-> upper_char(s[i])]
lower(s) == [i \in 1..Len(s) |-> lower_char(s[i])]

IsSpace(c) == c \in {" ", "\t", "\n"}

\* str.strip()
strip(s) ==
    LET idx == {i \in 1..Len(s) : ~IsSpace(s[i])}
    IN  IF idx = {} THEN <<>> ELSE SubSeq(s, SeqMin(idx), SeqMax(idx))

\* sub in s
StartsAt(s, sub, i) ==
    /\ i + Len(sub) - 1 <= Len(s)
    /\ \A j \in 1..Len(sub) : s[i + j - 1] = sub[j]
Contains(s, sub) == \E i \in 1..Len(s) : StartsAt(s, sub, i)

\* s.replace(sub, new), left to right, non-overlapping
RECURSIVE replace(_, _, _)
replace(s, sub, new) ==
    IF s = <<>> THEN <<>>
    ELSE IF StartsAt(s, sub, 1)
         THEN new \o replace(SubSeq(s, Len(sub) + 1, Len(s)), sub, new)
         ELSE <<s[1]>> \o replace(SubSeq(s, 2, Len(s)), sub, new)

\* s.count(c) for a one-character c
count(s, c) == Cardinality({i \in 1..Len(s) : s[i] = c})

IsDigit(c) == IsIn(c, DigitChars)
AllDigits(s) == \A i \in 1..Len(s) : IsDigit(s[i])
DigitVal(c) == PosIn(c, DigitChars) - 1

RECURSIVE NatOf(_)
NatOf(ds) ==
    IF ds = <<>> THEN 0
    ELSE NatOf(SubSeq(ds, 1, Len(ds) - 1)) * 10 + DigitVal(ds[Len(ds)])

\* str(n) for an integer n
RECURSIVE StrOfNat(_)
StrOfNat(n) ==
    IF n < 10 THEN <<DigitChars[n + 1]>>
    ELSE StrOfNat(n \div 10) \o <<DigitChars[(n % 10) + 1]>>
StrOfInt(n) == IF n < 0 THEN <<"-">> \o StrOfNat(0 - n) ELSE StrOfNat(n)

(***************************************************************************)
(* Python values.  None, str, int, bool as they occur in a JSON payload;   *)
(* Decimal values as coefficient m and exponent x (the value m * 10^x),    *)
(* NaN and the infinities; a date as year, month, day.                     *)
(***************************************************************************)
None == [k |-> "none"]
Str(s) == [k |-> "str", s |-> s]
Int_(n) == [k |-> "int", v |-> n]
Bool(b) == [k |-> "bool", b |-> b]
\* a float, kept as the text repr() gives it
Float(s) == [k |-> "float", s |-> s]
Dec(m, x) == [k |-> "dec", m |-> m, x |-> x]
NaN == [k |-> "nan"]
Inf(neg) == [k |-> "inf", n |-> neg]
Date(y, m, d) == [k |-> "date", y |-> y, m |-> m, d |-> d]
\* an exception propagating out of a call
Raise(e) == [k |-> "raise", e |-> e]

IsRaise(v) == v.k = "raise"

\* Decimal.__str__: the digits of the coefficient with the point placed by
\* the exponent; scientific notation when the exponent is positive or the
\* number has more than six zeros after the point
Zeros(n) == [i \in 1..n |-> "0"]
DecimalStrAt(negative, digits, leftdigits, dotplace) ==
    (IF negative THEN <<"-">> ELSE <<>>)
    \o (IF dotplace <= 0 THEN <<"0", ".">> \o Zeros(0 - dotplace) \o digits
        ELSE IF dotplace >= Len(digits) THEN digits \o Zeros(dotplace - Len(digits))
        ELSE SubSeq(digits, 1, dotplace) \o <<".">>
             \o SubSeq(digits, dotplace + 1, Len(digits)))
    \o (IF leftdigits = dotplace THEN <<>>
        ELSE <<"E">> \o (IF leftdigits > dotplace THEN <<"+">> ELSE <<>>)
             \o StrOfInt(leftdigits - dotplace))
DecimalStrOf(d, digits) ==
    DecimalStrAt(d.m < 0, digits, d.x + Len(digits),
                 IF d.x <= 0 /\ d.x + Len(digits) > 0 - 6 THEN d.x + Len(digits) ELSE 1)
DecimalStr(d) ==
    CASE d.k = "nan" -> <<"N","a","N">>
      [] d.k = "snan" -> <<"s","N","a","N">>
      [] d.k = "inf" -> (IF d.n THEN <<"-">> ELSE <<>>) \o <<"I","n","f","i","n","i","t","y">>
      [] OTHER -> DecimalStrOf(d, StrOfNat(IF d.m < 0 THEN 0 - d.m ELSE d.m))

\* str(value) for a payload value
str(v) ==
    CASE v.k = "str" -> v.s
      [] v.k = "int" -> StrOfInt(v.v)
      [] v.k = "float" -> v.s
      [] v.k = "bool" -> IF v.b THEN <<"T","r","u","e">> ELSE <<"F","a","l","s","e">>
      [] v.k \in {"dec", "nan", "snan", "inf"} -> DecimalStr(v)
      [] OTHER -> <<"N","o","n","e">>

RECURSIVE Pow10(_)
Pow10(n) == IF n <= 0 THEN 1 ELSE 10 * Pow10(n - 1)

\* sign of a - b for finite decimals a, b
DecCmp(a, b) ==
    LET lo == IF a.x < b.x THEN a.x ELSE b.x
        av == a.m * Pow10(a.x - lo)
        bv == b.m * Pow10(b.x - lo)
    IN  IF av < bv THEN -1 ELSE IF av > bv THEN 1 ELSE 0

\* a < b and a > b of decimal.Decimal: an ordering comparison with a NaN
\* signals InvalidOperation, the infinities compare as the extremes
DecLess(a, b) ==
    CASE a.k \in {"nan", "snan"} \/ b.k \in {"nan", "snan"} -> Raise("InvalidOperation")
      [] a.k = "inf" /\ b.k = "inf" -> Bool(a.n /\ ~b.n)
      [] a.k = "inf" -> Bool(a.n)
      [] b.k = "inf" -> Bool(~b.n)
      [] OTHER -> Bool(DecCmp(a, b) < 0)
DecGreater(a, b) == DecLess(b, a)

\* val / Decimal(10^n): a quiet NaN and an infinity pass through
DecDivPow10(val, n) ==
    CASE val.k = "nan" -> NaN
      [] val.k = "inf" -> val
      [] OTHER -> Dec(val.m, val.x - n)

\* decimal.Decimal(s): the constructor's grammar
\*   [sign] ( digits [. digits] [E [sign] digits] | Inf[inity] | [s]NaN[digits] )
\* after stripping white space and removing underscores, case-insensitive.
\* A string outside the grammar raises InvalidOperation.
\* The digits of a number: integer part, fraction, exponent.
DecimalDigits(neg, ipart, fpart, hasExp, eneg, edigits) ==
    IF /\ AllDigits(ipart)
       /\ AllDigits(fpart)
       /\ ipart # <<>> \/ fpart # <<>>
       /\ ~hasExp \/ (edigits # <<>> /\ AllDigits(edigits))
    THEN Dec(IF neg THEN 0 - NatOf(ipart \o fpart) ELSE NatOf(ipart \o fpart),
             (IF ~hasExp THEN 0 ELSE IF eneg THEN 0 - NatOf(edigits) ELSE NatOf(edigits))
               - Len(fpart))
    ELSE Raise("InvalidOperation")

\* A number split at its decimal point and at the sign of its exponent
DecimalFinite(neg, mant, hasExp, expo) ==
    LET esigned == expo # <<>> /\ expo[1] \in {"-", "+"}
        dpos == {i \in 1..Len(mant) : mant[i] = "."}
    IN  DecimalDigits(neg,
                      IF dpos = {} THEN mant ELSE SubSeq(mant, 1, SeqMin(dpos) - 1),
                      IF dpos = {} THEN <<>> ELSE SubSeq(mant, SeqMin(dpos) + 1, Len(mant)),
                      hasExp,
                      esigned /\ expo[1] = "-",
                      IF esigned THEN SubSeq(expo, 2, Len(expo)) ELSE expo)

\* What follows the sign: a special value, or a number split at its "e"
DecimalUnsigned(neg, body) ==
    LET epos == {i \in 1..Len(body) : body[i] = "e"}
    IN  CASE body \in {<<"i","n","f">>, <<"i","n","f","i","n","i","t","y">>} -> Inf(neg)
          [] StartsAt(body, <<"n","a","n">>, 1) /\ AllDigits(SubSeq(body, 4, Len(body)))
               -> NaN
          [] StartsAt(body, <<"s","n","a","n">>, 1) /\ AllDigits(SubSeq(body, 5, Len(body)))
               -> [k |-> "snan"]
          [] OTHER ->
               DecimalFinite(neg,
                             IF epos = {} THEN body ELSE SubSeq(body, 1, SeqMin(epos) - 1),
                             epos # {},
                             IF epos = {} THEN <<>>
                             ELSE SubSeq(body, SeqMin(epos) + 1, Len(body)))

DecimalSigned(s1) ==
    LET signed == s1 # <<>> /\ s1[1] \in {"-", "+"}
    IN  DecimalUnsigned(signed /\ s1[1] = "-",
                        IF signed THEN SubSeq(s1, 2, Len(s1)) ELSE s1)

Decimal(s0) == DecimalSigned(lower(SelectSeq(strip(s0), LAMBDA c : c # "_")))

(***************************************************************************)
(* adapter/normalizers.py                                                  *)
(***************************************************************************)
IsEmptyRaw(v) == v = None \/ v = Str(<<>>)

\* try: return ...  except Exception: return None
OrNone(v) == IF IsRaise(v) THEN None ELSE v

\* NormalizationService.normalize_string
StrOrNone(s) == IF s # <<>> THEN Str(s) ELSE None
normalize_string(value) ==
    IF value = None THEN None ELSE StrOrNone(strip(str(value)))

\* join_parts as it would be if every "." were kept
join_parts_keeping_every_point(s) == s

\* "".join(parts[:-1]) + "." + parts[-1] when s holds more than one "."
join_parts(s) ==
    LET dots == {i \in 1..Len(s) : s[i] = "."}
    IN  IF count(s, ".") > 1
        THEN SelectSeq(SubSeq(s, 1, SeqMax(dots) - 1), LAMBDA c : c # ".")
             \o SubSeq(s, SeqMax(dots), Len(s))
        ELSE s

\* NormalizationService.normalize_decimal from s = str(value).strip() on
normalize_decimal_str(s) ==
    IF s = <<>> THEN None
    ELSE OrNone(Decimal(join_parts(replace(replace(s, <<" ">>, <<>>), <<",">>, <<".">>))))

\* NormalizationService.normalize_decimal.  A bool is an int to isinstance,
\* and Decimal(str(True)) is outside the try: it raises.
normalize_decimal(value) ==
    IF IsEmptyRaw(value) THEN None
    ELSE IF value.k \in {"dec", "nan", "inf", "snan"} THEN value
    ELSE IF value.k \in {"int", "bool", "float"} THEN Decimal(str(value))
    ELSE normalize_decimal_str(strip(str(value)))

\* val / Decimal(..) if val is not None else None.  The division of a
\* signalling NaN raises InvalidOperation, which nothing catches.
RateDiv(val, n) ==
    IF val = None THEN None
    ELSE IF val.k = "snan" THEN Raise("InvalidOperation")
    ELSE DecDivPow10(val, n)

\* rate_scale as it would be if exactly 1000 were still read as a percentage
rate_scale_above_1000(val, gt1) ==
    IF IsRaise(gt1) THEN gt1
    ELSE IF gt1.b
         THEN IF val.k = "inf" \/ DecCmp(val, Dec(1000, 0)) > 0
              THEN DecDivPow10(val, 4)
              ELSE DecDivPow10(val, 2)
    ELSE val

\* if val > 1: ... return val, with the outcome gt1 of val > 1
rate_scale(val, gt1) ==
    IF IsRaise(gt1) THEN gt1
    ELSE IF gt1.b
         THEN IF val.k = "inf" \/ DecCmp(val, Dec(1000, 0)) >= 0
              THEN DecDivPow10(val, 4)
              ELSE DecDivPow10(val, 2)
    ELSE val

\* rate_plain as it would be if the test were val >= 1
rate_plain_from_1(val) ==
    IF val = None THEN None
    ELSE rate_scale(val, IF val.k \in {"snan", "nan"} THEN Raise("InvalidOperation")
                         ELSE Bool(~DecLess(val, Dec(1, 0)).b))

\* the plain branch of normalize_rate: val > 1 of any NaN raises
\* InvalidOperation, which nothing catches
rate_plain(val) ==
    IF val = None THEN None
    ELSE rate_scale(val, IF val.k = "snan" THEN Raise("InvalidOperation")
                         ELSE DecGreater(val, Dec(1, 0)))

\* NormalizationService.normalize_rate from s = str(rate_str).lower().strip() on
normalize_rate_str(s) ==
    IF Contains(s, <<"b","p","s">>)
    THEN RateDiv(normalize_decimal(Str(strip(replace(s, <<"b","p","s">>, <<>>)))), 4)
    ELSE IF Contains(s, <<"%">>)
    THEN RateDiv(normalize_decimal(Str(strip(replace(s, <<"%">>, <<>>)))), 2)
    ELSE rate_plain(normalize_decimal(Str(s)))

\* NormalizationService.normalize_rate
normalize_rate(rate_str) ==
    IF IsEmptyRaw(rate_str) THEN None
    ELSE normalize_rate_str(strip(lower(str(rate_str))))

\* Decimal.to_integral_value() under the default context: ROUND_HALF_EVEN.
\* q and r are the quotient and the remainder of |d| by p = 10^-exponent.
half_even(negative, q, r, p) ==
    IF 2 * r > p \/ (2 * r = p /\ q % 2 = 1)
    THEN (IF negative THEN 0 - (q + 1) ELSE q + 1)
    ELSE (IF negative THEN 0 - q ELSE q)
Abs(n) == IF n < 0 THEN 0 - n ELSE n
to_integral_value(d) ==
    IF d.x >= 0 THEN d.m * Pow10(d.x)
    ELSE half_even(d.m < 0, Abs(d.m) \div Pow10(0 - d.x), Abs(d.m) % Pow10(0 - d.x),
                   Pow10(0 - d.x))

\* int(Decimal(..).to_integral_value()) inside the try: InvalidOperation,
\* int() of a NaN or of an infinity all yield None
int_or_none(d) == IF d.k # "dec" THEN None ELSE Int_(to_integral_value(d))

\* NormalizationService.normalize_int from s = str(value).strip() on
normalize_int_str(s) ==
    IF s = <<>> THEN None ELSE int_or_none(Decimal(replace(s, <<",">>, <<".">>)))

\* NormalizationService.normalize_int
normalize_int(value) ==
    IF IsEmptyRaw(value) THEN None
    ELSE IF value.k = "bool" THEN None
    ELSE IF value.k = "int" THEN value
    ELSE normalize_int_str(strip(str(value)))

\* NormalizationService.normalize_category
PaidWords == {<<"k">>, <<"k","a","p","a","l","DOTLESS_I">>, <<"k","a","p","a","l","i">>,
              <<"p","a","i","d">>, <<"c","l","o","s","e","d">>}
ActiveWords == {<<"a">>, <<"a","k","t","i","f">>, <<"a","c","t","i","v","e">>}
OverdueWords == {<<"g">>, <<"g","e","c","i","k","m","i","S_CEDILLA">>,
                 <<"g","e","c","i","k","m","i","s">>, <<"o","v","e","r","d","u","e">>,
                 <<"d","e","l","i","n","q","u","e","n","t">>}
PAID == <<"P","A","I","D">>
ACTIVE == <<"A","C","T","I","V","E">>
OVERDUE == <<"O","V","E","R","D","U","E">>
UNKNOWN == <<"U","N","K","N","O","W","N">>

normalize_category(category_str) ==
    IF IsEmptyRaw(category_str) THEN Str(UNKNOWN)
    ELSE LET s == strip(lower(str(category_str)))
         IN  IF s \in PaidWords THEN Str(PAID)
             ELSE IF s \in ActiveWords THEN Str(ACTIVE)
             ELSE IF s \in OverdueWords THEN Str(OVERDUE)
             ELSE Str(UNKNOWN)

\* datetime.strptime(s, fmt) for formats made of %Y, %m, %d and literal
\* characters.  The format is a regular expression matched from the left,
\* each directive trying its alternatives in order:
\*   %Y  \d\d\d\d
\*   %m  1[0-2] | 0[1-9] | [1-9]
\*   %d  3[0-1] | [1-2]\d | 0[1-9] | [1-9] | " "[1-9]
\* Lens(tok, s, pos): the lengths the token can take at pos, in that order.
CharAt(s, i) == IF i >= 1 /\ i <= Len(s) THEN s[i] ELSE "END"
Lens(tok, s, pos) ==
    LET c1 == CharAt(s, pos)
        c2 == CharAt(s, pos + 1)
    IN  CASE tok = "%Y" ->
               IF \A i \in 0..3 : IsDigit(CharAt(s, pos + i)) THEN <<4>> ELSE <<>>
          [] tok = "%m" ->
               (IF \/ c1 = "1" /\ c2 \in {"0", "1", "2"}
                   \/ c1 = "0" /\ IsDigit(c2) /\ c2 # "0"
                THEN <<2>> ELSE <<>>)
               \o (IF IsDigit(c1) /\ c1 # "0" THEN <<1>> ELSE <<>>)
          [] tok = "%d" ->
               (IF \/ c1 = "3" /\ c2 \in {"0", "1"}
                   \/ c1 \in {"1", "2"} /\ IsDigit(c2)
                   \/ c1 = "0" /\ IsDigit(c2) /\ c2 # "0"
                THEN <<2>> ELSE <<>>)
               \o (IF IsDigit(c1) /\ c1 # "0" THEN <<1>> ELSE <<>>)
               \o (IF c1 = " " /\ IsDigit(c2) /\ c2 # "0" THEN <<2>> ELSE <<>>)
          [] OTHER -> IF c1 = tok THEN <<1>> ELSE <<>>

NoMatch == [ok |-> FALSE, end |-> 0, Y |-> 0, m |-> 0, d |-> 0]

\* the first alternative of the token after which the rest matches
re_pick(tok, s, pos, lens, tries) ==
    LET good == {i \in 1..Len(lens) : tries[i].ok}
    IN  IF good = {} THEN NoMatch
        ELSE [tries[SeqMin(good)] EXCEPT
                !.Y = IF tok = "%Y" THEN NatOf(SubSeq(s, pos, pos + 3)) ELSE @,
                !.m = IF tok = "%m"
                      THEN NatOf(SubSeq(s, pos, pos + lens[SeqMin(good)] - 1)) ELSE @,
                !.d = IF tok = "%d"
                      THEN NatOf(SelectSeq(SubSeq(s, pos, pos + lens[SeqMin(good)] - 1),
                                           IsDigit))
                      ELSE @]

RECURSIVE re_match(_, _, _)
re_try(fmt, s, pos, lens) ==
    re_pick(Head(fmt), s, pos, lens,
            [i \in 1..Len(lens) |-> re_match(Tail(fmt), s, pos + lens[i])])
re_match(fmt, s, pos) ==
    IF fmt = <<>> THEN [ok |-> TRUE, end |-> pos, Y |-> 0, m |-> 0, d |-> 0]
    ELSE re_try(fmt, s, pos, Lens(Head(fmt), s, pos))

IsLeap(y) == y % 4 = 0 /\ (y % 100 # 0 \/ y % 400 = 0)
DaysInMonth(y, m) ==
    IF m = 2 THEN (IF IsLeap(y) THEN 29 ELSE 28)
    ELSE IF m \in {4, 6, 9, 11} THEN 30 ELSE 31

\* the date of a match: the whole string matched, the year and the day exist
date_of(r, s) ==
    IF ~r.ok THEN Raise("ValueError")
    ELSE IF r.end # Len(s) + 1 THEN Raise("ValueError")
    ELSE IF r.Y < 1 \/ r.d > DaysInMonth(r.Y, r.m) THEN Raise("ValueError")
    ELSE Date(r.Y, r.m, r.d)
strptime(s, fmt) == date_of(re_match(fmt, s, 1), s)

DateFormats == << <<"%Y", "%m", "%d">>,
                  <<"%Y", "-", "%m", "-", "%d">>,
                  <<"%d", ".", "%m", ".", "%Y">>,
                  <<"%Y", "/", "%m", "/", "%d">>,
                  <<"%d", "/", "%m", "/", "%Y">> >>

\* the loop over the formats: the first that parses wins
first_format(s, parsed) ==
    LET good == {i \in 1..Len(parsed) : ~IsRaise(parsed[i])}
    IN  IF good = {} THEN None ELSE parsed[SeqMin(good)]

\* NormalizationService.normalize_date from date_str = str(date_str).strip() on
normalize_date_str(s) ==
    first_format(s, [i \in 1..Len(DateFormats) |-> strptime(s, DateFormats[i])])

\* NormalizationService.normalize_date
normalize_date(date_str) ==
    IF IsEmptyRaw(date_str) THEN None
    ELSE IF date_str.k = "date" THEN date_str
    ELSE normalize_date_str(strip(str(date_str)))

(***************************************************************************)
(* adapter/schemas.py                                                      *)
(***************************************************************************)
FieldSpec(name, field_type, required, min_value, max_value) ==
    [name |-> name, field_type |-> field_type, required |-> required,
     min_value |-> min_value, max_value |-> max_value]

CREDIT_FIELDS == <<
    FieldSpec("loan_account_number", "str", TRUE, None, None),
    FieldSpec("customer_type", "category", FALSE, None, None),
    FieldSpec("customer_id", "str", FALSE, None, None),
    FieldSpec("loan_product_type", "str", FALSE, None, None),
    FieldSpec("loan_status_code", "category", TRUE, None, None),
    FieldSpec("loan_status_flag", "category", FALSE, None, None),
    FieldSpec("days_past_due", "int", FALSE, Int_(0), None),
    FieldSpec("final_maturity_date", "date", FALSE, None, None),
    FieldSpec("total_installment_count", "int", FALSE, Int_(0), None),
    FieldSpec("outstanding_installment_count", "int", FALSE, Int_(0), None),
    FieldSpec("paid_installment_count", "int", FALSE, Int_(0), None),
    FieldSpec("first_payment_date", "date", FALSE, None, None),
    FieldSpec("original_loan_amount", "decimal", TRUE, Int_(0), None),
    FieldSpec("outstanding_principal_balance", "decimal", FALSE, Int_(0), None),
    FieldSpec("nominal_interest_rate", "rate", FALSE, Int_(0), None),
    FieldSpec("total_interest_amount", "decimal", FALSE, Int_(0), None),
    FieldSpec("kkdf_rate", "rate", FALSE, Int_(0), None),
    FieldSpec("kkdf_amount", "decimal", FALSE, Int_(0), None),
    FieldSpec("bsmv_rate", "rate", FALSE, Int_(0), None),
    FieldSpec("bsmv_amount", "decimal", FALSE, Int_(0), None),
    FieldSpec("grace_period_months", "int", FALSE, Int_(0), None),
    FieldSpec("installment_frequency", "int", FALSE, Int_(0), None),
    FieldSpec("loan_start_date", "date", TRUE, None, None),
    FieldSpec("loan_closing_date", "date", FALSE, None, None),
    FieldSpec("customer_region_code", "str", FALSE, None, None),
    FieldSpec("sector_code", "str", FALSE, None, None),
    FieldSpec("internal_credit_rating", "str", FALSE, None, None),
    FieldSpec("default_probability", "rate", FALSE, Int_(0), Int_(1)),
    FieldSpec("risk_class", "str", FALSE, None, None),
    FieldSpec("customer_segment", "str", FALSE, None, None),
    FieldSpec("internal_rating", "str", FALSE, None, None),
    FieldSpec("external_rating", "str", FALSE, None, None),
    FieldSpec("insurance_included", "category", FALSE, None, None) >>

PAYMENT_PLAN_FIELDS == <<
    FieldSpec("loan_account_number", "str", TRUE, None, None),
    FieldSpec("installment_number", "int", TRUE, Int_(0), None),
    FieldSpec("actual_payment_date", "date", FALSE, None, None),
    FieldSpec("scheduled_payment_date", "date", TRUE, None, None),
    FieldSpec("installment_amount", "decimal", TRUE, Int_(0), None),
    FieldSpec("principal_component", "decimal", FALSE, Int_(0), None),
    FieldSpec("interest_component", "decimal", FALSE, Int_(0), None),
    FieldSpec("kkdf_component", "decimal", FALSE, Int_(0), None),
    FieldSpec("bsmv_component", "decimal", FALSE, Int_(0), None),
    FieldSpec("installment_status", "category", FALSE, None, None),
    FieldSpec("remaining_principal", "decimal", FALSE, Int_(0), None),
    FieldSpec("remaining_interest", "decimal", FALSE, Int_(0), None),
    FieldSpec("remaining_kkdf", "decimal", FALSE, Int_(0), None),
    FieldSpec("remaining_bsmv", "decimal", FALSE, Int_(0), None) >>

CREDIT == <<"C","R","E","D","I","T">>
PAYMENT_PLAN == <<"P","A","Y","M","E","N","T","_","P","L","A","N">>
RETAIL == <<"R","E","T","A","I","L">>
COMMERCIAL == <<"C","O","M","M","E","R","C","I","A","L">>

\* get_schema
get_schema(dataset_type) ==
    IF upper(dataset_type) = CREDIT THEN CREDIT_FIELDS
    ELSE IF upper(dataset_type) = PAYMENT_PLAN THEN PAYMENT_PLAN_FIELDS
    ELSE Raise("ValueError")

\* get_clickhouse_columns, the column names
get_clickhouse_columns(dataset_type) ==
    [i \in 1..Len(get_schema(dataset_type)) |-> get_schema(dataset_type)[i].name]

(***************************************************************************)
(* adapter/validators.py                                                   *)
(***************************************************************************)
MISSING_FIELD == "MISSING_FIELD"
INVALID_DECIMAL_FORMAT == "INVALID_DECIMAL_FORMAT"
INVALID_RATE_FORMAT == "INVALID_RATE_FORMAT"
INVALID_INT_FORMAT == "INVALID_INT_FORMAT"
INVALID_DATE_FORMAT == "INVALID_DATE_FORMAT"
INVALID_CATEGORY == "INVALID_CATEGORY"
OUT_OF_RANGE == "OUT_OF_RANGE"
UNKNOWN_LOAN_ID == "UNKNOWN_LOAN_ID"

error(code, field) == [code |-> code, field |-> field]

\* payload.get(name)
get(payload, name) == IF name \in DOMAIN payload THEN payload[name] ELSE None

\* value < bound of a normalized value and an integer bound: int < int,
\* Decimal < int, and TypeError for a str or a date
Less(value, bound) ==
    CASE value.k = "int" -> Bool(value.v < bound.v)
      [] value.k \in {"dec", "nan", "snan", "inf"} -> DecLess(value, Dec(bound.v, 0))
      [] OTHER -> Raise("TypeError")
Greater(value, bound) ==
    CASE value.k = "int" -> Bool(value.v > bound.v)
      [] value.k \in {"dec", "nan", "snan", "inf"} -> DecGreater(value, Dec(bound.v, 0))
      [] OTHER -> Raise("TypeError")

\* the branch of the field's type: the normalizer called
normalize_field(field_type, raw_value) ==
    CASE field_type = "str" -> normalize_string(raw_value)
      [] field_type = "int" -> normalize_int(raw_value)
      [] field_type = "decimal" -> normalize_decimal(raw_value)
      [] field_type = "rate" -> normalize_rate(raw_value)
      [] field_type = "date" -> normalize_date(raw_value)
      [] field_type = "category" -> normalize_category(raw_value)
      [] OTHER -> raw_value

\* the branch of the field's type: the error appended after the normalizer
format_errors(spec, value) ==
    CASE spec.field_type = "str" ->
           IF value = None /\ spec.required
           THEN <<error(MISSING_FIELD, spec.name)>> ELSE <<>>
      [] spec.field_type = "int" ->
           IF value = None THEN <<error(INVALID_INT_FORMAT, spec.name)>> ELSE <<>>
      [] spec.field_type = "decimal" ->
           IF value = None THEN <<error(INVALID_DECIMAL_FORMAT, spec.name)>> ELSE <<>>
      [] spec.field_type = "rate" ->
           IF value = None THEN <<error(INVALID_RATE_FORMAT, spec.name)>> ELSE <<>>
      [] spec.field_type = "date" ->
           IF value = None THEN <<error(INVALID_DATE_FORMAT, spec.name)>> ELSE <<>>
      [] spec.field_type = "category" ->
           IF spec.required /\ value = Str(UNKNOWN)
           THEN <<error(INVALID_CATEGORY, spec.name)>> ELSE <<>>
      [] OTHER -> <<>>

\* range_checked as it would be without the error for a value below the
\* minimum
range_checked_without_minimum(spec, value, below, above) ==
    IF IsRaise(below) THEN below
    ELSE IF IsRaise(above) THEN above
    ELSE [k |-> "ok", value |-> value,
          errors |-> format_errors(spec, value)
                     \o (IF above.b THEN <<error(OUT_OF_RANGE, spec.name)>> ELSE <<>>)]

\* the range checks, with the outcomes of value < min_value and
\* value > max_value: either comparison may raise
range_checked(spec, value, below, above) ==
    IF IsRaise(below) THEN below
    ELSE IF IsRaise(above) THEN above
    ELSE [k |-> "ok", value |-> value,
          errors |-> format_errors(spec, value)
                     \o (IF below.b THEN <<error(OUT_OF_RANGE, spec.name)>> ELSE <<>>)
                     \o (IF above.b THEN <<error(OUT_OF_RANGE, spec.name)>> ELSE <<>>)]

\* the turn of the loop from the normalized value on
validate_value(spec, value) ==
    IF IsRaise(value) THEN value
    ELSE range_checked(spec, value,
                       IF value # None /\ spec.min_value # None
                       THEN Less(value, spec.min_value) ELSE Bool(FALSE),
                       IF value # None /\ spec.max_value # None
                       THEN Greater(value, spec.max_value) ELSE Bool(FALSE))

\* the turn of the loop from raw_value = payload.get(spec.name) on
validate_raw(spec, raw_value) ==
    IF IsEmptyRaw(raw_value)
    THEN [k |-> "ok", value |-> None,
          errors |-> IF spec.required THEN <<error(MISSING_FIELD, spec.name)>> ELSE <<>>]
    ELSE validate_value(spec, normalize_field(spec.field_type, raw_value))

\* One turn of the loop of validate_and_normalize: the field's normalized
\* value and its errors in the order they are appended, or the exception
\* that leaves the loop.
validate_field(payload, spec) == validate_raw(spec, get(payload, spec.name))

RECURSIVE ConcatErrors(_, _)
ConcatErrors(results, n) ==
    IF n = 0 THEN <<>> ELSE ConcatErrors(results, n - 1) \o results[n].errors

\* loop_result as it would be if a field without a value got no slot
loop_result_without_null_slots(schema, results) ==
    LET raising == {i \in 1..Len(schema) : IsRaise(results[i])}
    IN  IF raising # {} THEN results[SeqMin(raising)]
        ELSE [k |-> "ok",
              normalized |-> [n \in {schema[i].name :
                                        i \in {j \in 1..Len(schema) : results[j].value # None}} |->
                                results[CHOOSE i \in 1..Len(schema) : schema[i].name = n].value],
              errors |-> ConcatErrors(results, Len(schema))]

\* the loop's outcome from the outcomes of its turns: the first exception,
\* or every field's value and the errors in order
loop_result(schema, results) ==
    LET raising == {i \in 1..Len(schema) : IsRaise(results[i])}
    IN  IF raising # {} THEN results[SeqMin(raising)]
        ELSE [k |-> "ok",
              normalized |-> [n \in {schema[i].name : i \in 1..Len(schema)} |->
                                results[CHOOSE i \in 1..Len(schema) : schema[i].name = n].value],
              errors |-> ConcatErrors(results, Len(schema))]

\* validate_and_normalize: (normalized, errors), or the first exception
validate_and_normalize(payload, schema) ==
    loop_result(schema, [i \in 1..Len(schema) |-> validate_field(payload, schema[i])])

(***************************************************************************)
(* Bounds and inputs                                                       *)
(***************************************************************************)
\* invocations of run_ingestion in one behaviour
MaxRuns == 2
\* rows of the source dataset that varies
MaxRows == 2
\* chunk_size of load_chunked, 2000 in the code, scaled to the sources here
chunk_size == 2
\* rows of the longest source a load pass is followed over on its own
MaxLoad == 5
\* sync requests the server handles at the same time
MaxRequests == 2

\* The payloads of the source rows, as csv.DictReader leaves them: every
\* value is a str; a column the file lacks is no key.
CreditSamples == <<
    [loan_account_number |-> Str(<<"L","1">>), loan_status_code |-> Str(<<"A">>),
     loan_start_date |-> Str(<<"2","0","2","5","-","0","1","-","0","1">>), original_loan_amount |-> Str(<<"1","0","0","0">>)],
    [loan_account_number |-> Str(<<"L","2"," ">>), loan_status_code |-> Str(<<"A","k","t","i","f">>),
     loan_start_date |-> Str(<<"2","0","2","5","0","1","0","2">>), original_loan_amount |-> Str(<<"2",".","0","0","0",",","5","0">>),
     nominal_interest_rate |-> Str(<<"1","2",".","5","%">>)],
    [loan_account_number |-> Str(<<"L","3">>), loan_status_code |-> Str(<<"A">>)],
    [loan_account_number |-> Str(<<"L","4">>), loan_status_code |-> Str(<<"A">>),
     loan_start_date |-> Str(<<"2","0","2","5","-","0","1","-","0","1">>), original_loan_amount |-> Str(<<"n","a","n">>)] >>

\* the rows of a longer file, all of them valid, each with its own account
LongFile ==
    [i \in 1..MaxLoad |->
        [loan_account_number |-> Str(<<"N">> \o str(Int_(i))),
         loan_status_code |-> Str(<<"A">>),
         loan_start_date |-> Str(<<"2","0","2","5","-","0","1","-","0","1">>),
         original_loan_amount |-> Str(str(Int_(1000 + i)))]]

CreditPayloads == CreditSamples \o LongFile

PlanPayloads == <<
    [loan_account_number |-> Str(<<"L","1">>), installment_number |-> Str(<<"1">>),
     scheduled_payment_date |-> Str(<<"2","0","2","5","-","0","2","-","0","1">>), installment_amount |-> Str(<<"1","0","0">>)],
    [loan_account_number |-> Str(<<"L","2">>), installment_number |-> Str(<<"1">>),
     scheduled_payment_date |-> Str(<<"0","1",".","0","3",".","2","0","2","5">>), installment_amount |-> Str(<<"1","0","0",",","5">>)],
    [loan_account_number |-> Str(<<"L","9">>), installment_number |-> Str(<<"1">>),
     scheduled_payment_date |-> Str(<<"2","0","2","5","-","0","2","-","0","1">>), installment_amount |-> Str(<<"1","0","0">>)],
    [loan_account_number |-> Str(<<"L","9">>), installment_number |-> Str(<<"2">>),
     scheduled_payment_date |-> Str(<<"2","0","2","5","-","0","2","-","0","1">>), installment_amount |-> Str(<<"a","b","c">>)],
    [loan_account_number |-> Str(<<"L","1">>), installment_number |-> Str(<<"2">>),
     scheduled_payment_date |-> Str(<<"2","0","2","5","-","0","2","-","0","1">>), installment_amount |-> Str(<<"n","a","n">>)] >>

\* The arguments run_ingestion is called with
TenantArgs == {None, Str(<<" "," ">>), Str(<<" ","b","1"," ">>), Str(<<"z","z">>)}
LoanTypeArgs == {None, Str(<<" ","r","e","t","a","i","l">>), Str(<<"C","O","M","M","E","R","C","I","A","L">>), Str(<<"M","O","R","T","G","A","G","E">>)}
DatasetTypeArgs == {None, Str(<<>>), Str(<<"c","r","e","d","i","t"," ">>), Str(<<"P","A","Y","M","E","N","T","_","P","L","A","N">>),
                    Str(<<" "," ">>), Str(<<"L","O","A","N","S">>)}

\* uuid.uuid4(): the groups of the UUID, str(id).split("-")[0] is the first
UUIDs == {<<"0a", "1">>, <<"0a", "2">>, <<"0b", "1">>}

\* api.models.Client rows
B1 == <<"B","1">>
B2 == <<"B", "2">>
Clients == {[tenant_code |-> B1], [tenant_code |-> B2]}

(***************************************************************************)
(* external_bank/csv_read_helpers.py and the source tables                 *)
(***************************************************************************)
\* detect_external_id: the first non-blank of the id keys, stripped
IdKeys == <<"loan_account_number", "external_id", "id", "loan_id", "ref">>
detect_external_id(row) ==
    LET found == {i \in 1..Len(IdKeys) :
                    get(row, IdKeys[i]) # None /\ strip(str(get(row, IdKeys[i]))) # <<>>}
    IN  IF found = {} THEN None
        ELSE Str(strip(str(get(row, IdKeys[SeqMin(found)]))))

\* A MockLoan row as process_credit_csv builds it; the payload column is
\* kept as its index in CreditPayloads
MockLoan(bank_code, loan_type, p) ==
    [bank_code |-> bank_code, loan_type |-> loan_type,
     external_id |-> detect_external_id(CreditPayloads[p]).s, payload |-> p]

\* A MockLoanPaymentPlan row as process_payment_plan_csv builds it
MockLoanPaymentPlan(bank_code, loan_type, p) ==
    [bank_code |-> bank_code, loan_type |-> loan_type,
     loan_external_id |-> detect_external_id(PlanPayloads[p]).s, payload |-> p]

\* the strictly increasing index sequences of length <= n over 1..m: the
\* samples a source holds, in id order
RECURSIVE IncSeqs(_, _)
IncSeqs(m, n) ==
    IF n = 0 \/ m = 0 THEN {<<>>}
    ELSE IncSeqs(m - 1, n) \cup {Append(s, m) : s \in IncSeqs(m - 1, n - 1)}

(***************************************************************************)
(* State                                                                   *)
(***************************************************************************)
VARIABLES
    mock_loans,     \* external_bank MockLoan rows, in id order
    mock_plans,     \* external_bank MockLoanPaymentPlan rows, in id order
    loans,          \* api Loan rows
    plans,          \* api LoanPaymentPlan rows
    batches,        \* api Batch rows, by id
    batch_errors,   \* api BatchError rows, in insertion order
    ch_databases,   \* ClickHouse databases
    ch_tables,      \* ClickHouse tables, by <<database, table>>
    now,            \* the clock timezone.now() reads; it ticks once an invocation
    run,            \* the invocation of run_ingestion in progress
    hist            \* what an observer of the invocation has seen

vars == <<mock_loans, mock_plans, loans, plans, batches, batch_errors,
          ch_databases, ch_tables, now, run, hist>>

STARTED == "STARTED"
PROCESSING == "PROCESSING"
SUCCESS == "SUCCESS"
FAILED == "FAILED"
FAILED_VALIDATION == "FAILED_VALIDATION"
Terminal == {SUCCESS, FAILED, FAILED_VALIDATION}

\* a null DateTimeField
NoTime == 0
\* batch_id = None
NoId == <<>>

\* api.models.Batch
Batch(tenant, status, loan_type, started_at) ==
    [tenant |-> tenant, status |-> status, loan_type |-> loan_type,
     record_count |-> 0, total_rows |-> 0, valid_rows |-> 0, invalid_rows |-> 0,
     started_at |-> started_at, completed_at |-> NoTime, error_message |-> None]

\* api.models.Loan as load_chunked builds it; x or y of Python
Or(x, y) == IF x = None \/ (x.k = "dec" /\ x.m = 0) THEN y ELSE x
Loan(tenant, loan_type, normalized) ==
    [tenant |-> tenant,
     external_id |-> str(normalized["loan_account_number"]),
     loan_type |-> loan_type,
     amount |-> Or(normalized["original_loan_amount"], Dec(0, 0)),
     interest_rate |-> Or(normalized["nominal_interest_rate"], Dec(0, 0)),
     customer_name |-> Or(normalized["customer_id"], Str(<<"Customer">>)),
     is_active |-> normalized["loan_status_code"] = Str(ACTIVE)]

\* api.models.LoanPaymentPlan as load_chunked builds it
LoanPaymentPlan(tenant, loan_type, normalized, payload) ==
    [tenant |-> tenant,
     loan_type |-> loan_type,
     loan_external_id |-> str(normalized["loan_account_number"]),
     installment_number |-> normalized["installment_number"],
     scheduled_payment_date |-> normalized["scheduled_payment_date"],
     installment_amount |-> normalized["installment_amount"],
     payload |-> payload]

\* the rows a Loan / LoanPaymentPlan table held before any run
OldLoan(tenant, loan_type) ==
    [tenant |-> tenant, external_id |-> <<"OLD_1">>, loan_type |-> loan_type,
     amount |-> Dec(100, 0), interest_rate |-> Dec(0, 0),
     customer_name |-> Str(<<"Old">>), is_active |-> TRUE]
OldPlan(tenant, loan_type) ==
    [tenant |-> tenant, loan_type |-> loan_type, loan_external_id |-> <<"OLD_1">>,
     installment_number |-> Int_(1), scheduled_payment_date |-> Date(2024, 1, 1),
     installment_amount |-> Dec(10, 0), payload |-> 0]

\* uniq_tenant_loan and uniq_tenant_payment_plan_row
LoanKey(r) == <<r.tenant, r.external_id, r.loan_type>>
PlanKey(r) == <<r.tenant, r.loan_type, r.loan_external_id, r.installment_number>>

(***************************************************************************)
(* adapter/clickhouse_client.py and the table names                        *)
(***************************************************************************)
\* ClickHouseClient.get_db_name
get_db_name(tenant_schema) == <<"dwh_">> \o lower(tenant_schema)

\* IngestionService.resolve_target_table; a name is its pieces in order
resolve_target_table(dataset_type, loan_type) ==
    LET prefix == IF upper(dataset_type) = CREDIT
                  THEN "fact_loans_current" ELSE "fact_payment_plan_current"
        suffix == IF upper(loan_type) = RETAIL THEN "retail" ELSE "commercial"
    IN  <<prefix, "_", suffix>>

\* the staging table of init_clickhouse:
\* f"{target_table}_staging_{str(batch.id).split('-')[0]}"
staging_table(target_table, batch_id) == target_table \o <<"_staging_", batch_id[1]>>

\* IngestionService.resolve_order_by
resolve_order_by(dataset_type) ==
    IF upper(dataset_type) = CREDIT
    THEN <<"loan_type", "loan_account_number">>
    ELSE <<"loan_type", "loan_account_number", "installment_number">>

\* the row load_chunked appends to ch_batch: {**normalized, batch_id, loan_type}
ch_record(normalized, batch_id, loan_type) ==
    [c \in DOMAIN normalized \cup {"batch_id", "loan_type"} |->
        IF c = "batch_id" THEN Str(<<batch_id[1], "-", batch_id[2]>>)
        ELSE IF c = "loan_type" THEN Str(loan_type)
        ELSE normalized[c]]

\* [r[c] for c in cols] as the table stores it: the columns that are not
\* null (the other columns of the row are null)
ch_row(r, cols) ==
    LET names == {cols[i] : i \in 1..Len(cols)}
    IN  [c \in {n \in names : r[n] # None} |-> r[c]]

Exists(db, table) == <<db, table>> \in DOMAIN ch_tables

\* the tables after a statement
WithTable(db, table, rows) ==
    [n \in DOMAIN ch_tables \cup {<<db, table>>} |->
        IF n = <<db, table>> THEN [rows |-> rows] ELSE ch_tables[n]]
WithoutTable(db, table) ==
    [n \in DOMAIN ch_tables \ {<<db, table>>} |-> ch_tables[n]]
Exchanged(db, a, b) ==
    [n \in DOMAIN ch_tables |->
        IF n = <<db, a>> THEN ch_tables[<<db, b>>]
        ELSE IF n = <<db, b>> THEN ch_tables[<<db, a>>]
        ELSE ch_tables[n]]

(***************************************************************************)
(* adapter/ingestion.py: the pure parts                                    *)
(***************************************************************************)
\* (x or default) of an argument that is a str or None
OrStr(x, default) == IF x = None \/ x = Str(<<>>) THEN default ELSE x.s

\* normalize_inputs as it would be with a fallback for the loan type: one
\* that is neither RETAIL nor COMMERCIAL is taken as RETAIL
normalize_inputs_default_loan_type(tenant_id, loan_type, dataset_type) ==
    LET t == upper(strip(OrStr(tenant_id, <<>>)))
        l == upper(strip(OrStr(loan_type, <<>>)))
        d == upper(strip(OrStr(dataset_type, CREDIT)))
    IN  IF t = <<>> THEN Raise("ValueError")
        ELSE IF d \notin {CREDIT, PAYMENT_PLAN} THEN Raise("ValueError")
        ELSE [k |-> "ok", tenant_id |-> t,
              loan_type |-> IF l \in {RETAIL, COMMERCIAL} THEN l ELSE RETAIL,
              dataset_type |-> d]

\* IngestionService.normalize_inputs
normalize_inputs(tenant_id, loan_type, dataset_type) ==
    LET t == upper(strip(OrStr(tenant_id, <<>>)))
        l == upper(strip(OrStr(loan_type, <<>>)))
        d == upper(strip(OrStr(dataset_type, CREDIT)))
    IN  IF t = <<>> THEN Raise("ValueError")
        ELSE IF l \notin {RETAIL, COMMERCIAL} THEN Raise("ValueError")
        ELSE IF d \notin {CREDIT, PAYMENT_PLAN} THEN Raise("ValueError")
        ELSE [k |-> "ok", tenant_id |-> t, loan_type |-> l, dataset_type |-> d]

\* IngestionService.get_source_queryset, evaluated: the rows in id order
get_source_queryset(bank_code, loan_type, dataset_type) ==
    IF dataset_type = CREDIT
    THEN SelectSeq(mock_loans,
                   LAMBDA r : r.bank_code = bank_code /\ r.loan_type = loan_type)
    ELSE SelectSeq(mock_plans,
                   LAMBDA r : r.bank_code = bank_code /\ r.loan_type = loan_type)

\* item.payload or {}
payload_of(item, dataset_type) ==
    IF dataset_type = CREDIT THEN CreditPayloads[item.payload]
    ELSE PlanPayloads[item.payload]

\* IngestionService.get_credit_id_set; for a CREDIT run it is None, read as
\* the empty set where it is used (credit_id_set or set())
get_credit_id_set(bank_code, loan_type, dataset_type) ==
    IF dataset_type # PAYMENT_PLAN THEN {}
    ELSE {mock_loans[i].external_id :
            i \in {j \in 1..Len(mock_loans) :
                     /\ mock_loans[j].bank_code = bank_code
                     /\ mock_loans[j].loan_type = loan_type}}

\* IngestionService.normalize_row
normalize_row(payload, schema) == validate_and_normalize(payload, schema)

\* IngestionService.is_payment_ref_valid
is_payment_ref_valid(dataset_type, raw_external_id, credit_id_set) ==
    IF dataset_type # PAYMENT_PLAN THEN TRUE
    ELSE IF raw_external_id = None \/ raw_external_id = Str(<<>>) THEN FALSE
    ELSE raw_external_id.s \in credit_id_set

\* a BatchError row of validate_all_rows
BatchError(batch_id, row_number, error_code, field_name, raw_excerpt) ==
    [batch |-> batch_id, row_number |-> row_number, error_code |-> error_code,
     field_name |-> field_name, raw_excerpt |-> raw_excerpt]

\* validate_row as it would be if it counted every error of a row instead of
\* the row
validate_row_counting_every_error(before, n, item, res, dataset_type, credit_id_set, batch_id) ==
    IF IsRaise(before) THEN before
    ELSE IF IsRaise(res) THEN res
    ELSE IF res.errors # <<>>
    THEN [before EXCEPT
            !.invalid_count = @ + Len(res.errors),
            !.errors_to_create = @ \o
               [i \in 1..Len(res.errors) |->
                  BatchError(batch_id, n, res.errors[i].code, res.errors[i].field,
                             item.payload)]]
    ELSE IF ~is_payment_ref_valid(dataset_type, res.normalized["loan_account_number"],
                                  credit_id_set)
    THEN [before EXCEPT
            !.invalid_count = @ + 1,
            !.errors_to_create = Append(@,
                  BatchError(batch_id, n, UNKNOWN_LOAN_ID, "loan_account_number",
                             item.payload))]
    ELSE [before EXCEPT !.valid_count = @ + 1]

\* One turn of the loop of validate_all_rows: row n with the outcome res of
\* normalize_row, after the turns counted in before
validate_row(before, n, item, res, dataset_type, credit_id_set, batch_id) ==
    IF IsRaise(before) THEN before
    ELSE IF IsRaise(res) THEN res
    ELSE IF res.errors # <<>>
    THEN [before EXCEPT
            !.invalid_count = @ + 1,
            !.errors_to_create = @ \o
               [i \in 1..Len(res.errors) |->
                  BatchError(batch_id, n, res.errors[i].code, res.errors[i].field,
                             item.payload)]]
    ELSE IF ~is_payment_ref_valid(dataset_type, res.normalized["loan_account_number"],
                                  credit_id_set)
    THEN [before EXCEPT
            !.invalid_count = @ + 1,
            !.errors_to_create = Append(@,
                  BatchError(batch_id, n, UNKNOWN_LOAN_ID, "loan_account_number",
                             item.payload))]
    ELSE [before EXCEPT !.valid_count = @ + 1]

\* IngestionService.validate_all_rows over the first n rows of qs:
\* (valid_count, invalid_count, errors_to_create), or the exception a row raises
RECURSIVE validate_rows(_, _, _, _, _, _)
validate_rows(qs, n, schema, dataset_type, credit_id_set, batch_id) ==
    IF n = 0
    THEN [k |-> "ok", valid_count |-> 0, invalid_count |-> 0, errors_to_create |-> <<>>]
    ELSE validate_row(validate_rows(qs, n - 1, schema, dataset_type, credit_id_set, batch_id),
                      n, qs[n], normalize_row(payload_of(qs[n], dataset_type), schema),
                      dataset_type, credit_id_set, batch_id)

validate_all_rows(qs, schema, dataset_type, credit_id_set, batch_id) ==
    validate_rows(qs, Len(qs), schema, dataset_type, credit_id_set, batch_id)

(***************************************************************************)
(* Init                                                                    *)
(***************************************************************************)
EmptyFun == [x \in {} |-> x]

IdleRun ==
    [pc |-> "idle", tenant_id |-> <<>>, loan_type |-> <<>>, dataset_type |-> <<>>,
     batch_id |-> NoId, batch |-> Batch(<<>>, STARTED, <<>>, NoTime),
     valid_count |-> 0, invalid_count |-> 0, errors_to_create |-> <<>>,
     pos |-> 0, record_count |-> 0, ch_batch |-> <<>>, pg_batch |-> <<>>,
     in_tx |-> FALSE, tx |-> {}, exc |-> "", result |-> None]

\* What an observer records of one invocation: its arguments, the stores as
\* they were when it was called, the statements sent to ClickHouse, whether
\* the source was read, whether the dry pass ran, the rows inserted into the
\* staging table, the rows bulk_create was given, the statuses the Batch
\* went through, the update_fields
\* of each batch.save, and the steps of the load phase that completed, each
\* with the number of rows it wrote
NoHist ==
    [args |-> <<>>, pre_loans |-> {}, pre_plans |-> {}, pre_tables |-> EmptyFun,
     pre_batches |-> EmptyFun, ch_log |-> <<>>, reads |-> FALSE, dry |-> FALSE,
     staged |-> <<>>, created |-> <<>>, statuses |-> <<>>, saves |-> <<>>,
     steps |-> <<>>]

\* a row of a table published before any run
OldRow(loan_type) ==
    [loan_account_number |-> Str(<<"OLD_1">>), batch_id |-> Str(<<"ff", "-", "0">>),
     loan_type |-> Str(loan_type)]

\* The sources: the RETAIL datasets of B1 vary, one of the two at a time; the
\* COMMERCIAL loan dataset holds one row and the COMMERCIAL plan dataset none.
Sources ==
    {<<c, <<>>>> : c \in IncSeqs(Len(CreditSamples), MaxRows)}
    \cup {<<(<<1, 2>>), p>> : p \in IncSeqs(Len(PlanPayloads), MaxRows)}

\* The state before any invocation, the source holding src.  The
\* destinations: empty, or (old) holding an earlier snapshot.
InitWith(src, old) ==
    /\ mock_loans = [i \in 1..Len(src[1]) |-> MockLoan(B1, RETAIL, src[1][i])]
                     \o <<MockLoan(B1, COMMERCIAL, 1)>>
    /\ mock_plans = [i \in 1..Len(src[2]) |-> MockLoanPaymentPlan(B1, RETAIL, src[2][i])]
    /\ loans = (IF old THEN {OldLoan(B1, RETAIL), OldLoan(B1, COMMERCIAL)} ELSE {})
                \cup {OldLoan(B2, RETAIL)}
    /\ plans = (IF old THEN {OldPlan(B1, RETAIL), OldPlan(B1, COMMERCIAL)} ELSE {})
                \cup {OldPlan(B2, RETAIL)}
    /\ ch_databases = (IF old THEN {get_db_name(B1)} ELSE {}) \cup {get_db_name(B2)}
    /\ ch_tables =
         [n \in {<<get_db_name(t), resolve_target_table(d, RETAIL)>> :
                   t \in (IF old THEN {B1, B2} ELSE {B2}),
                   d \in {CREDIT, PAYMENT_PLAN}} |->
             [rows |-> <<OldRow(RETAIL)>>]]
    /\ batches = EmptyFun
    /\ batch_errors = <<>>
    /\ now = 0
    /\ run = IdleRun
    /\ hist = NoHist

Init == \E src \in Sources, old \in BOOLEAN : InitWith(src, old)

(***************************************************************************)
(* run_ingestion, statement by statement.  Between two actions lies a      *)
(* point where another process can read the stores.                        *)
(*                                                                         *)
(* Infrastructure errors: every call to the ClickHouse store, every        *)
(* statement of the relational transaction of load_chunked, its commit,    *)
(* and the Batch save of finalize_batch_success may raise.                 *)
(***************************************************************************)
\* batch.save(update_fields=fields) of the in-memory Batch b
Saved(b, fields) ==
    [batches EXCEPT ![run.batch_id] =
        [f \in DOMAIN @ |-> IF f \in fields THEN b[f] ELSE @[f]]]

\* an exception reaches the except clause of run_ingestion; leaving the
\* atomic block on the way rolls the transaction back
Except(r, e) == [r EXCEPT !.pc = "except", !.exc = e, !.in_tx = FALSE, !.tx = {}]

\* tenant = batch.tenant and the names derived from it
bank_code == upper(run.batch.tenant)
ch_db == get_db_name(lower(run.batch.tenant))
target_table == resolve_target_table(run.dataset_type, run.loan_type)
staging == staging_table(target_table, run.batch_id)
qs == get_source_queryset(bank_code, run.loan_type, run.dataset_type)

\* the caller invokes run_ingestion: normalize_inputs, then the first half
\* of init_batch (load the Batch, or find the tenant and create one)
Invoke(tenant_arg, loan_type_arg, dataset_type_arg, batch_arg) ==
    LET n == normalize_inputs(tenant_arg, loan_type_arg, dataset_type_arg)
        h == [NoHist EXCEPT !.args = <<tenant_arg, loan_type_arg, dataset_type_arg,
                                       batch_arg>>,
                            !.pre_loans = loans, !.pre_plans = plans,
                            !.pre_tables = ch_tables, !.pre_batches = batches]
        found == {c \in Clients : lower(c.tenant_code) = lower(n.tenant_id)}
        r == [IdleRun EXCEPT !.tenant_id = n.tenant_id, !.loan_type = n.loan_type,
                             !.dataset_type = n.dataset_type, !.pc = "init_batch"]
    IN  /\ run.pc \in {"idle", "spawned"}
        /\ now' = now + 1
        /\ UNCHANGED <<mock_loans, mock_plans, loans, plans, batch_errors,
                       ch_databases, ch_tables>>
        /\ IF IsRaise(n)
           THEN /\ run' = [IdleRun EXCEPT !.pc = "done", !.result = n]
                /\ hist' = h
                /\ UNCHANGED batches
           ELSE IF batch_arg # NoId
           THEN IF batch_arg \in DOMAIN batches
                THEN /\ run' = [r EXCEPT !.batch_id = batch_arg,
                                         !.batch = batches[batch_arg]]
                     /\ hist' = [h EXCEPT !.statuses = <<batches[batch_arg].status>>]
                     /\ UNCHANGED batches
                ELSE /\ run' = [IdleRun EXCEPT !.pc = "done",
                                               !.result = Raise("DoesNotExist")]
                     /\ hist' = h
                     /\ UNCHANGED batches
           ELSE IF found = {}
           THEN /\ run' = [IdleRun EXCEPT !.pc = "done", !.result = Raise("DoesNotExist")]
                /\ hist' = h
                /\ UNCHANGED batches
           ELSE \E id \in UUIDs \ DOMAIN batches, c \in found :
                  LET b == Batch(c.tenant_code, STARTED, n.loan_type, now')
                  IN  /\ batches' = [i \in DOMAIN batches \cup {id} |->
                                        IF i = id THEN b ELSE batches[i]]
                      /\ run' = [r EXCEPT !.batch_id = id, !.batch = b]
                      /\ hist' = [h EXCEPT !.statuses = <<STARTED>>]

\* init_batch, second half: PROCESSING
InitBatchSave ==
    LET b == [run.batch EXCEPT
                !.status = PROCESSING,
                !.started_at = IF @ # NoTime THEN @ ELSE now,
                !.loan_type = run.loan_type]
    IN  /\ run.pc = "init_batch"
        /\ batches' = Saved(b, {"status", "started_at", "loan_type"})
        /\ run' = [run EXCEPT !.batch = b, !.pc = "count"]
        /\ hist' = [hist EXCEPT !.statuses = Append(@, PROCESSING),
                                !.saves = Append(@, {"status", "started_at",
                                                     "loan_type"})]
        /\ UNCHANGED <<mock_loans, mock_plans, loans, plans, batch_errors,
                       ch_databases, ch_tables, now>>

\* CountRows as it would be without the zero-row return: the run goes on to
\* the dry pass whatever the count
CountRows_without_zero_row_return ==
    LET b == [run.batch EXCEPT !.total_rows = Len(qs)]
    IN  /\ run.pc = "count"
        /\ batches' = Saved(b, {"total_rows"})
        /\ run' = [run EXCEPT !.batch = b, !.pc = "dry_pass"]
        /\ hist' = [hist EXCEPT !.reads = TRUE,
                                !.saves = Append(@, {"total_rows"})]
        /\ UNCHANGED <<mock_loans, mock_plans, loans, plans, batch_errors,
                       ch_databases, ch_tables, now>>

\* total_rows = qs.count(), saved
CountRows ==
    LET b == [run.batch EXCEPT !.total_rows = Len(qs)]
    IN  /\ run.pc = "count"
        /\ batches' = Saved(b, {"total_rows"})
        /\ run' = [run EXCEPT !.batch = b,
                              !.pc = IF Len(qs) = 0 THEN "zero_rows" ELSE "dry_pass"]
        /\ hist' = [hist EXCEPT !.reads = TRUE,
                                !.saves = Append(@, {"total_rows"})]
        /\ UNCHANGED <<mock_loans, mock_plans, loans, plans, batch_errors,
                       ch_databases, ch_tables, now>>

\* if total_rows == 0: SUCCESS, return True
ZeroRows ==
    LET b == [run.batch EXCEPT !.status = SUCCESS, !.completed_at = now,
                               !.record_count = 0, !.valid_rows = 0, !.invalid_rows = 0]
    IN  /\ run.pc = "zero_rows"
        /\ batches' = Saved(b, {"status", "completed_at", "record_count",
                                "valid_rows", "invalid_rows"})
        /\ run' = [run EXCEPT !.batch = b, !.pc = "done", !.result = Bool(TRUE)]
        /\ hist' = [hist EXCEPT !.statuses = Append(@, SUCCESS),
                                !.saves = Append(@, {"status", "completed_at",
                                                     "record_count", "valid_rows",
                                                     "invalid_rows"})]
        /\ UNCHANGED <<mock_loans, mock_plans, loans, plans, batch_errors,
                       ch_databases, ch_tables, now>>

\* the invocation after validate_all_rows gave v: the exception propagates,
\* or the counts are set on the Batch and the run branches on invalid_count
validated(r, v) ==
    IF IsRaise(v) THEN Except(r, v.e)
    ELSE [r EXCEPT
            !.batch = [@ EXCEPT !.valid_rows = v.valid_count,
                                !.invalid_rows = v.invalid_count],
            !.valid_count = v.valid_count,
            !.invalid_count = v.invalid_count,
            !.errors_to_create = v.errors_to_create,
            !.pc = IF v.invalid_count > 0 THEN "persist_errors" ELSE "create_database"]

\* get_schema, get_credit_id_set, validate_all_rows, and the counts saved
DryPass ==
    /\ run.pc = "dry_pass"
    /\ run' = validated(run, validate_all_rows(qs, get_schema(run.dataset_type),
                                               run.dataset_type,
                                               get_credit_id_set(bank_code, run.loan_type,
                                                                 run.dataset_type),
                                               run.batch_id))
    /\ batches' = IF run'.pc = "except" THEN batches
                  ELSE Saved(run'.batch, {"valid_rows", "invalid_rows"})
    /\ hist' = [hist EXCEPT !.dry = TRUE, !.reads = TRUE,
                            !.saves = IF run'.pc = "except" THEN @
                                      ELSE Append(@, {"valid_rows", "invalid_rows"})]
    /\ UNCHANGED <<mock_loans, mock_plans, loans, plans, batch_errors,
                   ch_databases, ch_tables, now>>

\* handle_validation_failure: BatchError.objects.bulk_create
PersistErrors ==
    /\ run.pc = "persist_errors"
    /\ batch_errors' = batch_errors \o run.errors_to_create
    /\ run' = [run EXCEPT !.pc = "fail_validation"]
    /\ UNCHANGED <<mock_loans, mock_plans, loans, plans, batches,
                   ch_databases, ch_tables, now, hist>>

\* handle_validation_failure: FAILED_VALIDATION, return False
FailValidation ==
    LET b == [run.batch EXCEPT
                !.status = FAILED_VALIDATION,
                !.error_message = [k |-> "validation", n |-> run.invalid_count],
                !.completed_at = now]
    IN  /\ run.pc = "fail_validation"
        /\ batches' = Saved(b, {"status", "error_message", "completed_at"})
        /\ run' = [run EXCEPT !.batch = b, !.pc = "done", !.result = Bool(FALSE)]
        /\ hist' = [hist EXCEPT !.statuses = Append(@, FAILED_VALIDATION),
                                !.saves = Append(@, {"status", "error_message",
                                                     "completed_at"})]
        /\ UNCHANGED <<mock_loans, mock_plans, loans, plans, batch_errors,
                       ch_databases, ch_tables, now>>

\* one more ClickHouse statement sent by this invocation
Logged(stmt) == [hist EXCEPT !.ch_log = Append(@, stmt)]
\* ... and the step it completed (h: the observations with the statement logged)
Stepped(h, step, rows) == [h EXCEPT !.steps = Append(@, <<step, rows>>)]

\* init_clickhouse: init_client.create_database(ch_tenant_key)
CreateDatabase ==
    /\ run.pc = "create_database"
    /\ hist' = Logged("CREATE DATABASE IF NOT EXISTS")
    /\ \E fault \in BOOLEAN :
         IF fault
         THEN /\ run' = Except(run, "ClickHouseError")
              /\ UNCHANGED ch_databases
         ELSE /\ ch_databases' = ch_databases \cup {ch_db}
              /\ run' = [run EXCEPT !.pc = "drop_stale_staging"]
    /\ UNCHANGED <<mock_loans, mock_plans, loans, plans, batches, batch_errors,
                   ch_tables, now>>

\* init_clickhouse: DROP TABLE IF EXISTS {staging}
DropStaleStaging ==
    /\ run.pc = "drop_stale_staging"
    /\ \E fault \in BOOLEAN :
         IF fault \/ ch_db \notin ch_databases
         THEN /\ run' = Except(run, "ClickHouseError")
              /\ hist' = Logged("DROP TABLE IF EXISTS staging")
              /\ UNCHANGED ch_tables
         ELSE /\ ch_tables' = WithoutTable(ch_db, staging)
              /\ run' = [run EXCEPT !.pc = "create_staging"]
              /\ hist' = Stepped(Logged("DROP TABLE IF EXISTS staging"),
                                 "drop_stale_staging", 0)
    /\ UNCHANGED <<mock_loans, mock_plans, loans, plans, batches, batch_errors,
                   ch_databases, now>>

\* init_clickhouse: CREATE TABLE {staging} (...)
CreateStaging ==
    /\ run.pc = "create_staging"
    /\ \E fault \in BOOLEAN :
         IF fault \/ ch_db \notin ch_databases \/ Exists(ch_db, staging)
         THEN /\ run' = Except(run, "ClickHouseError")
              /\ hist' = Logged("CREATE TABLE staging")
              /\ UNCHANGED ch_tables
         ELSE /\ ch_tables' = WithTable(ch_db, staging, <<>>)
              /\ run' = [run EXCEPT !.pc = "begin_load"]
              /\ hist' = Stepped(Logged("CREATE TABLE staging"), "create_staging", 0)
    /\ UNCHANGED <<mock_loans, mock_plans, loans, plans, batches, batch_errors,
                   ch_databases, now>>

\* the statement load_chunked would reach next if it flushed a buffer as
\* soon as it held a row
LoadPc_flushing_every_row(r, n) ==
    IF r.ch_batch # <<>> THEN "flush_ch"
    ELSE IF r.pg_batch # <<>> THEN "flush_pg"
    ELSE IF r.pos < n THEN "load_row"
    ELSE "commit"

\* the statement load_chunked would reach next if it left the transaction
\* without flushing the remainders
LoadPc_without_remainders(r, n) ==
    IF Len(r.ch_batch) >= chunk_size THEN "flush_ch"
    ELSE IF Len(r.pg_batch) >= chunk_size THEN "flush_pg"
    ELSE IF r.pos < n THEN "load_row"
    ELSE "commit"

\* where load_chunked goes on after a row or a flush: the two flushes of the
\* loop when a buffer is full, the next row, and after the last row the
\* flushes of what remains, then the end of the atomic block
LoadPc(r, n) ==
    IF Len(r.ch_batch) >= chunk_size THEN "flush_ch"
    ELSE IF Len(r.pg_batch) >= chunk_size THEN "flush_pg"
    ELSE IF r.pos < n THEN "load_row"
    ELSE IF r.ch_batch # <<>> THEN "flush_ch"
    ELSE IF r.pg_batch # <<>> THEN "flush_pg"
    ELSE "commit"

\* the start of load_chunked as it would be if the delete took every row of
\* the tenant, whatever its loan type
BeginLoad_deleting_every_loan_type ==
    LET table == IF run.dataset_type = CREDIT THEN loans ELSE plans
        kept == {x \in table : x.tenant # run.batch.tenant}
        r == [run EXCEPT !.in_tx = TRUE, !.tx = kept, !.pos = 0, !.record_count = 0,
                         !.ch_batch = <<>>, !.pg_batch = <<>>]
    IN  /\ run.pc = "begin_load"
        /\ \E fault \in BOOLEAN :
             IF fault
             THEN /\ run' = Except(run, "DatabaseError")
                  /\ UNCHANGED hist
             ELSE /\ run' = [r EXCEPT !.pc = LoadPc(r, Len(qs))]
                  /\ hist' = Stepped(hist, "delete", 0)
        /\ UNCHANGED <<mock_loans, mock_plans, loans, plans, batches, batch_errors,
                       ch_databases, ch_tables, now>>

\* the start of load_chunked as it would be if the delete were committed on
\* its own, outside the transaction of the inserts
BeginLoad_deleting_at_once ==
    LET table == IF run.dataset_type = CREDIT THEN loans ELSE plans
        kept == {x \in table : ~(x.tenant = run.batch.tenant /\ x.loan_type = run.loan_type)}
        r == [run EXCEPT !.in_tx = TRUE, !.tx = kept, !.pos = 0, !.record_count = 0,
                         !.ch_batch = <<>>, !.pg_batch = <<>>]
    IN  /\ run.pc = "begin_load"
        /\ \E fault \in BOOLEAN :
             IF fault
             THEN /\ run' = Except(run, "DatabaseError")
                  /\ UNCHANGED <<hist, loans, plans>>
             ELSE /\ run' = [r EXCEPT !.pc = LoadPc(r, Len(qs))]
                  /\ hist' = Stepped(hist, "delete", 0)
                  /\ loans' = IF run.dataset_type = CREDIT THEN kept ELSE loans
                  /\ plans' = IF run.dataset_type = CREDIT THEN plans ELSE kept
        /\ UNCHANGED <<mock_loans, mock_plans, batches, batch_errors,
                       ch_databases, ch_tables, now>>

\* load_chunked: transaction.atomic() entered, the partition deleted
BeginLoad ==
    LET table == IF run.dataset_type = CREDIT THEN loans ELSE plans
        kept == {x \in table : ~(x.tenant = run.batch.tenant /\ x.loan_type = run.loan_type)}
        r == [run EXCEPT !.in_tx = TRUE, !.tx = kept, !.pos = 0, !.record_count = 0,
                         !.ch_batch = <<>>, !.pg_batch = <<>>]
    IN  /\ run.pc = "begin_load"
        /\ \E fault \in BOOLEAN :
             IF fault
             THEN /\ run' = Except(run, "DatabaseError")
                  /\ UNCHANGED hist
             ELSE /\ run' = [r EXCEPT !.pc = LoadPc(r, Len(qs))]
                  /\ hist' = Stepped(hist, "delete", 0)
        /\ UNCHANGED <<mock_loans, mock_plans, loans, plans, batches, batch_errors,
                       ch_databases, ch_tables, now>>

\* load_row as it would be if a valid row were counted and appended to
\* ch_batch but not to pg_batch
load_row_without_pg_batch(r, item, res, credit_id_set) ==
    IF IsRaise(res) THEN Except(r, res.e)
    ELSE IF \/ res.errors # <<>>
            \/ ~is_payment_ref_valid(r.dataset_type, res.normalized["loan_account_number"],
                                     credit_id_set)
    THEN [r EXCEPT !.pos = @ + 1]
    ELSE [r EXCEPT
            !.pos = @ + 1,
            !.record_count = @ + 1,
            !.ch_batch = Append(@, ch_record(res.normalized, r.batch_id, r.loan_type))]

\* load_chunked: one turn of the loop over qs.iterator(), up to the flushes,
\* with the outcome res of normalize_row: the row is skipped, or appended to
\* pg_batch and ch_batch
load_row(r, item, res, credit_id_set) ==
    IF IsRaise(res) THEN Except(r, res.e)
    ELSE IF \/ res.errors # <<>>
            \/ ~is_payment_ref_valid(r.dataset_type, res.normalized["loan_account_number"],
                                     credit_id_set)
    THEN [r EXCEPT !.pos = @ + 1]
    ELSE [r EXCEPT
            !.pos = @ + 1,
            !.record_count = @ + 1,
            !.pg_batch = Append(@, IF r.dataset_type = CREDIT
                                   THEN Loan(r.batch.tenant, r.loan_type, res.normalized)
                                   ELSE LoanPaymentPlan(r.batch.tenant, r.loan_type,
                                                        res.normalized, item.payload)),
            !.ch_batch = Append(@, ch_record(res.normalized, r.batch_id, r.loan_type))]

\* the statement load_chunked reaches next
Continue(r, n) == IF r.pc = "except" THEN r ELSE [r EXCEPT !.pc = LoadPc(r, n)]

LoadRow ==
    /\ run.pc = "load_row"
    /\ run.pos < Len(qs)
    /\ run' = Continue(load_row(run, qs[run.pos + 1],
                                normalize_row(payload_of(qs[run.pos + 1], run.dataset_type),
                                              get_schema(run.dataset_type)),
                                get_credit_id_set(bank_code, run.loan_type,
                                                  run.dataset_type)),
                       Len(qs))
    /\ UNCHANGED <<mock_loans, mock_plans, loans, plans, batches, batch_errors,
                   ch_databases, ch_tables, now, hist>>

\* load_chunked: ch.insert_data(staging, data, column_names=cols)
FlushCh ==
    LET cols == get_clickhouse_columns(run.dataset_type) \o <<"batch_id", "loan_type">>
        data == [i \in 1..Len(run.ch_batch) |-> ch_row(run.ch_batch[i], cols)]
        r == [run EXCEPT !.ch_batch = <<>>]
    IN  /\ run.pc = "flush_ch"
        /\ \E fault \in BOOLEAN :
             IF fault \/ ~Exists(ch_db, staging)
             THEN /\ run' = Except(run, "ClickHouseError")
                  /\ hist' = Logged("INSERT INTO staging")
                  /\ UNCHANGED ch_tables
             ELSE /\ ch_tables' = WithTable(ch_db, staging,
                                            ch_tables[<<ch_db, staging>>].rows \o data)
                  /\ run' = [r EXCEPT !.pc = LoadPc(r, Len(qs))]
                  /\ hist' = Stepped([Logged("INSERT INTO staging")
                                        EXCEPT !.staged = @ \o data],
                                     "insert_data", Len(data))
        /\ UNCHANGED <<mock_loans, mock_plans, loans, plans, batches, batch_errors,
                       ch_databases, now>>

\* load_chunked: bulk_create(pg_batch) inside the transaction; a row that
\* repeats a unique key raises IntegrityError
FlushPg ==
    LET Key(x) == IF run.dataset_type = CREDIT THEN LoanKey(x) ELSE PlanKey(x)
        new == {run.pg_batch[i] : i \in 1..Len(run.pg_batch)}
        clash == \/ \E i, j \in 1..Len(run.pg_batch) :
                       i # j /\ Key(run.pg_batch[i]) = Key(run.pg_batch[j])
                 \/ \E x \in new, y \in run.tx : Key(x) = Key(y)
        r == [run EXCEPT !.pg_batch = <<>>, !.tx = @ \cup new]
    IN  /\ run.pc = "flush_pg"
        /\ \E fault \in BOOLEAN :
             IF clash THEN run' = Except(run, "IntegrityError") /\ UNCHANGED hist
             ELSE IF fault THEN run' = Except(run, "DatabaseError") /\ UNCHANGED hist
             ELSE /\ run' = [r EXCEPT !.pc = LoadPc(r, Len(qs))]
                  /\ hist' = Stepped([hist EXCEPT !.created = @ \o run.pg_batch],
                                     "bulk_create", Len(run.pg_batch))
        /\ UNCHANGED <<mock_loans, mock_plans, loans, plans, batches, batch_errors,
                       ch_databases, ch_tables, now>>

\* load_chunked: the atomic block ends, the transaction commits
Commit ==
    /\ run.pc = "commit"
    /\ \E fault \in BOOLEAN :
         IF fault
         THEN /\ run' = Except(run, "DatabaseError")
              /\ UNCHANGED <<loans, plans, hist>>
         ELSE /\ loans' = IF run.dataset_type = CREDIT THEN run.tx ELSE loans
              /\ plans' = IF run.dataset_type = CREDIT THEN plans ELSE run.tx
              /\ run' = [run EXCEPT !.in_tx = FALSE, !.tx = {}, !.pc = "publish_create"]
              /\ hist' = Stepped(hist, "commit", 0)
    /\ UNCHANGED <<mock_loans, mock_plans, batches, batch_errors,
                   ch_databases, ch_tables, now>>

\* CREATE TABLE IF NOT EXISTS {target_table} AS {staging}: a missing target
\* is created with the structure of staging and no rows
PublishCreate ==
    /\ run.pc = "publish_create"
    /\ \E fault \in BOOLEAN :
         IF fault \/ ~Exists(ch_db, staging)
         THEN /\ run' = Except(run, "ClickHouseError")
              /\ hist' = Logged("CREATE TABLE IF NOT EXISTS target AS staging")
              /\ UNCHANGED ch_tables
         ELSE /\ ch_tables' = IF Exists(ch_db, target_table) THEN ch_tables
                              ELSE WithTable(ch_db, target_table, <<>>)
              /\ run' = [run EXCEPT !.pc = "publish_swap"]
              /\ hist' = Stepped(Logged("CREATE TABLE IF NOT EXISTS target AS staging"),
                                 "publish_create", 0)
    /\ UNCHANGED <<mock_loans, mock_plans, loans, plans, batches, batch_errors,
                   ch_databases, now>>

\* ClickHouseClient.swap_tables: EXISTS TABLE, then RENAME or EXCHANGE
swap_tables(table_main, table_staging) ==
    IF ~Exists(ch_db, table_main)
    THEN IF Exists(ch_db, table_staging)
         THEN [k |-> "ok",
               tables |-> WithoutTable(ch_db, table_staging) @@
                          (<<ch_db, table_main>> :> ch_tables[<<ch_db, table_staging>>])]
         ELSE Raise("ClickHouseError")
    ELSE IF Exists(ch_db, table_staging)
         THEN [k |-> "ok", tables |-> Exchanged(ch_db, table_main, table_staging)]
         ELSE Raise("ClickHouseError")

\* swap_tables: the statement it sends after EXISTS TABLE
swap_statement(table_main) ==
    IF ~Exists(ch_db, table_main) THEN "RENAME TABLE" ELSE "EXCHANGE TABLES"

PublishSwap ==
    LET s == swap_tables(target_table, staging)
    IN  /\ run.pc = "publish_swap"
        /\ \E fault \in BOOLEAN :
             IF fault \/ IsRaise(s)
             THEN /\ run' = Except(run, "ClickHouseError")
                  /\ hist' = Logged(swap_statement(target_table))
                  /\ UNCHANGED ch_tables
             ELSE /\ ch_tables' = s.tables
                  /\ run' = [run EXCEPT !.pc = "publish_drop"]
                  /\ hist' = Stepped(Logged(swap_statement(target_table)),
                                     "swap_tables", 0)
        /\ UNCHANGED <<mock_loans, mock_plans, loans, plans, batches, batch_errors,
                       ch_databases, now>>

\* DROP TABLE IF EXISTS {staging}
PublishDrop ==
    /\ run.pc = "publish_drop"
    /\ \E fault \in BOOLEAN :
         IF fault
         THEN /\ run' = Except(run, "ClickHouseError")
              /\ hist' = Logged("DROP TABLE IF EXISTS staging")
              /\ UNCHANGED ch_tables
         ELSE /\ ch_tables' = WithoutTable(ch_db, staging)
              /\ run' = [run EXCEPT !.pc = "finalize"]
              /\ hist' = Stepped(Logged("DROP TABLE IF EXISTS staging"),
                                 "publish_drop", 0)
    /\ UNCHANGED <<mock_loans, mock_plans, loans, plans, batches, batch_errors,
                   ch_databases, now>>

\* finalize_batch_success: SUCCESS, return True
finalize_batch_success ==
    LET b == [run.batch EXCEPT !.status = SUCCESS, !.record_count = run.record_count,
                               !.completed_at = now]
    IN  /\ run.pc = "finalize"
        /\ \E fault \in BOOLEAN :
             IF fault
             THEN /\ run' = Except([run EXCEPT !.batch = b], "DatabaseError")
                  /\ UNCHANGED <<batches, hist>>
             ELSE /\ batches' = Saved(b, {"status", "record_count", "completed_at"})
                  /\ run' = [run EXCEPT !.batch = b, !.pc = "done", !.result = Bool(TRUE)]
                  /\ hist' = Stepped([hist EXCEPT
                                         !.statuses = Append(@, SUCCESS),
                                         !.saves = Append(@, {"status", "record_count",
                                                              "completed_at"})],
                                     "success", 0)
        /\ UNCHANGED <<mock_loans, mock_plans, loans, plans, batch_errors,
                       ch_databases, ch_tables, now>>

\* HandleException as it would be if the handler returned False instead of
\* raising again
HandleException_without_raise ==
    LET b == [run.batch EXCEPT
                !.status = FAILED,
                !.error_message = [k |-> "system", x |-> run.exc],
                !.completed_at = now]
    IN  /\ run.pc = "except"
        /\ batches' = Saved(b, {"status", "error_message", "completed_at"})
        /\ run' = [run EXCEPT !.batch = b, !.pc = "done", !.result = Bool(FALSE)]
        /\ hist' = [hist EXCEPT !.statuses = Append(@, FAILED),
                                !.saves = Append(@, {"status", "error_message",
                                                     "completed_at"})]
        /\ UNCHANGED <<mock_loans, mock_plans, loans, plans, batch_errors,
                       ch_databases, ch_tables, now>>

\* except Exception as e: FAILED, the error text, raise
HandleException ==
    LET b == [run.batch EXCEPT
                !.status = FAILED,
                !.error_message = [k |-> "system", x |-> run.exc],
                !.completed_at = now]
    IN  /\ run.pc = "except"
        /\ batches' = Saved(b, {"status", "error_message", "completed_at"})
        /\ run' = [run EXCEPT !.batch = b, !.pc = "done", !.result = Raise(run.exc)]
        /\ hist' = [hist EXCEPT !.statuses = Append(@, FAILED),
                                !.saves = Append(@, {"status", "error_message",
                                                     "completed_at"})]
        /\ UNCHANGED <<mock_loans, mock_plans, loans, plans, batch_errors,
                       ch_databases, ch_tables, now>>

\* the caller has the outcome; the service is free for the next invocation
Return ==
    /\ run.pc = "done"
    /\ run' = IdleRun
    /\ UNCHANGED <<mock_loans, mock_plans, loans, plans, batches, batch_errors,
                   ch_databases, ch_tables, now, hist>>

\* the rest of run_ingestion, after the call, up to its return or raise
Body ==
    \/ InitBatchSave
    \/ CountRows
    \/ ZeroRows
    \/ DryPass
    \/ PersistErrors
    \/ FailValidation
    \/ CreateDatabase
    \/ DropStaleStaging
    \/ CreateStaging
    \/ BeginLoad
    \/ LoadRow
    \/ FlushCh
    \/ FlushPg
    \/ Commit
    \/ PublishCreate
    \/ PublishSwap
    \/ PublishDrop
    \/ finalize_batch_success
    \/ HandleException

Steps == Body \/ Return

\* One invocation, with any arguments, over any of the sources, the
\* destinations empty or holding an earlier snapshot
Call ==
    /\ now = 0
    /\ \E t \in TenantArgs, l \in LoanTypeArgs, d \in DatasetTypeArgs,
          b \in {NoId, CHOOSE id \in UUIDs : TRUE} :
         Invoke(t, l, d, b)

Next == Call \/ Steps

Spec == Init /\ [][Next]_vars

\* Successive invocations for tenant B1, each for a new Batch or for the Batch
\* of an earlier one, over a source that stays as it is: the RETAIL loans
\* valid, the RETAIL plan rows with an unknown loan among them, one
\* COMMERCIAL loan, no COMMERCIAL plan row
InitRuns == InitWith(<< <<1, 2>>, <<1, 3>> >>, FALSE)

CallAgain ==
    /\ now < MaxRuns
    /\ \E l \in {Str(RETAIL), Str(COMMERCIAL)}, d \in {Str(CREDIT), Str(PAYMENT_PLAN)},
          b \in {NoId} \cup DOMAIN batches :
         Invoke(Str(B1), l, d, b)

NextRuns == CallAgain \/ Steps

SpecRuns == InitRuns /\ [][NextRuns]_vars

(***************************************************************************)
(* api/views.py: POST /api/sync/ and the background runner.  Requests come *)
(* one at a time, each after the runner of the one before has ended.       *)
(***************************************************************************)
\* The users: u1 is assigned to tenant B1 (UserTenant), u0 to none, root is
\* a superuser
Users == {"u1", "u0", "root"}
is_superuser(user) == user = "root"
UserTenant == [user \in {"u1"} |-> [tenant_code |-> B1]]

FORBIDDEN == [k |-> "FORBIDDEN"]

\* TenantResolverMixin.resolve_tenant: a Client, None or "FORBIDDEN"
resolve_tenant(user, tenant_id) ==
    LET code == upper(strip(tenant_id))
        found == {c \in Clients : lower(c.tenant_code) = lower(code)}
    IN  IF is_superuser(user)
        THEN IF code = <<>> \/ found = {} THEN None ELSE CHOOSE c \in found : TRUE
        ELSE IF user \notin DOMAIN UserTenant THEN None
        ELSE IF code # <<>> /\ upper(UserTenant[user].tenant_code) # code THEN FORBIDDEN
        ELSE UserTenant[user]

\* the response of a request that starts no run
Rejected(status) ==
    /\ run' = [IdleRun EXCEPT !.result = Int_(status)]
    /\ UNCHANGED <<batches, now>>

\* SyncViewSet.create with the validated data of SyncRequestSerializer:
\* tenant_id stripped and upper-cased, loan_type and dataset_type among the
\* choices.  On 202 the Batch is created STARTED and the runner is started.
SyncCreate ==
    /\ run.pc = "idle"
    /\ Cardinality(DOMAIN batches) < MaxRuns
    /\ UNCHANGED <<mock_loans, mock_plans, loans, plans, batch_errors,
                   ch_databases, ch_tables, hist>>
    /\ \E user \in Users, tenant_id \in {B1, <<"Z", "Z">>},
          loan_type \in {RETAIL, COMMERCIAL}, dataset_type \in {CREDIT, PAYMENT_PLAN} :
         LET tenant == resolve_tenant(user, tenant_id)
         IN  IF tenant = FORBIDDEN THEN Rejected(403)
             ELSE IF tenant = None THEN Rejected(404)
             ELSE IF \E id \in DOMAIN batches :
                        /\ batches[id].tenant = tenant.tenant_code
                        /\ batches[id].loan_type = loan_type
                        /\ batches[id].status \in {STARTED, PROCESSING}
             THEN Rejected(409)
             ELSE \E id \in UUIDs \ DOMAIN batches :
                    /\ now' = now + 1
                    /\ batches' = [i \in DOMAIN batches \cup {id} |->
                                      IF i = id
                                      THEN Batch(tenant.tenant_code, STARTED, loan_type, now')
                                      ELSE batches[i]]
                    /\ run' = [IdleRun EXCEPT !.pc = "spawned", !.batch_id = id,
                                              !.tenant_id = tenant.tenant_code,
                                              !.loan_type = loan_type,
                                              !.dataset_type = dataset_type,
                                              !.result = Int_(202)]

\* start_sync_async, run(): the runner calls run_ingestion with the Batch id
ThreadRun ==
    /\ run.pc = "spawned"
    /\ Invoke(Str(run.tenant_id), Str(run.loan_type), Str(run.dataset_type), run.batch_id)

\* start_sync_async, run(): except Exception as e, the update of the Batch
ThreadExcept ==
    /\ run.pc = "done"
    /\ IsRaise(run.result)
    /\ now' = now + 1
    /\ batches' = [batches EXCEPT ![run.batch_id] =
                      [@ EXCEPT !.status = FAILED,
                                !.error_message = [k |-> "caller", x |-> run.result.e],
                                !.completed_at = now']]
    /\ run' = IdleRun
    /\ UNCHANGED <<mock_loans, mock_plans, loans, plans, batch_errors,
                   ch_databases, ch_tables, hist>>

\* start_sync_async, run(): run_ingestion returned, the runner ends
ThreadReturn ==
    /\ run.pc = "done"
    /\ ~IsRaise(run.result)
    /\ run' = IdleRun
    /\ UNCHANGED <<mock_loans, mock_plans, loans, plans, batches, batch_errors,
                   ch_databases, ch_tables, now, hist>>

\* The stores before the first request: the source of InitRuns; for the
\* COMMERCIAL loans of B1 there may be a Batch a dead process left PROCESSING
StaleBatch == [Batch(B1, PROCESSING, COMMERCIAL, 0 - 1) EXCEPT !.total_rows = 1]
InitSync ==
    /\ mock_loans = <<MockLoan(B1, RETAIL, 1), MockLoan(B1, RETAIL, 2),
                      MockLoan(B1, COMMERCIAL, 1)>>
    /\ mock_plans = <<MockLoanPaymentPlan(B1, RETAIL, 1), MockLoanPaymentPlan(B1, RETAIL, 3)>>
    /\ loans = {}
    /\ plans = {}
    /\ ch_databases = {}
    /\ ch_tables = EmptyFun
    /\ \E stale \in BOOLEAN :
          batches = IF stale THEN [i \in {<<"ff", "0">>} |-> StaleBatch] ELSE EmptyFun
    /\ batch_errors = <<>>
    /\ now = 0
    /\ run = IdleRun
    /\ hist = NoHist

NextSync == SyncCreate \/ ThreadRun \/ Body \/ ThreadExcept \/ ThreadReturn

SpecSync == InitSync /\ [][NextSync]_vars

(***************************************************************************)
(* The pure functions, each applied to inputs drawn from a set.  In these  *)
(* specifications run is the call in progress: its arguments and, once it  *)
(* has returned, its result; the stores are empty and stay so.             *)
(***************************************************************************)
CallOf(call) ==
    /\ mock_loans = <<>>
    /\ mock_plans = <<>>
    /\ loans = {}
    /\ plans = {}
    /\ batches = EmptyFun
    /\ batch_errors = <<>>
    /\ ch_databases = {}
    /\ ch_tables = EmptyFun
    /\ now = 0
    /\ hist = NoHist
    /\ run = call

Returned(result) ==
    /\ run.pc = "call"
    /\ run' = [run EXCEPT !.pc = "return", !.result = result]
    /\ UNCHANGED <<mock_loans, mock_plans, loans, plans, batches, batch_errors,
                   ch_databases, ch_tables, now, hist>>

\* The raw values a payload may hold under a key: null, strings (empty,
\* blank, padded, numbers in several notations, non-finite numbers, rates,
\* dates that exist and that do not, category words), integers, booleans
RawValues ==
    {None, Str(<<>>), Str(<<" ", " ">>), Str(<<" ", "L", "7", " ">>), Str(<<"a", "b", "c">>),
     Str(<<"1", "2">>), Str(<<"-", "3">>), Str(<<"2", ".", "5">>), Str(<<"1", ".", "0", "0", "0", ",", "5">>),
     Str(<<"n", "a", "n">>), Str(<<"I", "n", "f">>), Str(<<"-", "i", "n", "f">>),
     Str(<<"1", "2", ".", "5", "%">>), Str(<<"1", "5", "0", "b", "p", "s">>), Str(<<"0", ".", "5">>),
     Str(<<"2", "0", "2", "5", "-", "0", "1", "-", "3", "1">>),
     Str(<<"3", "1", ".", "0", "1", ".", "2", "0", "2", "5">>),
     Str(<<"2", "0", "2", "5", "-", "0", "2", "-", "3", "0">>),
     Str(<<"A">>), Str(<<"K", "a", "p", "a", "l", "i">>), Str(<<"U", "N", "K", "N", "O", "W", "N">>),
     Int_(7), Int_(0 - 1), Bool(TRUE)}

\* the key is not in the payload
Absent == [k |-> "absent"]

\* row with v under key f, or without the key
RowWith(row, f, v) ==
    IF v = Absent THEN [n \in DOMAIN row \ {f} |-> row[n]]
    ELSE [n \in DOMAIN row \cup {f} |-> IF n = f THEN v ELSE row[n]]

\* A row the schema accepts, and the same row with its amount unparseable
\* or not a number
amount_field(dataset_type) ==
    IF dataset_type = CREDIT THEN "original_loan_amount" ELSE "installment_amount"
BaseRows(dataset_type) ==
    LET ok == IF dataset_type = CREDIT THEN CreditPayloads[1] ELSE PlanPayloads[1]
    IN  {ok,
         RowWith(ok, amount_field(dataset_type), Str(<<"a", "b", "c">>)),
         RowWith(ok, amount_field(dataset_type), Str(<<"n", "a", "n">>))}

\* The rows validate is applied to: a base row with one field replaced by
\* each raw value, or left out
FieldNames(dataset_type) ==
    {get_schema(dataset_type)[i].name : i \in 1..Len(get_schema(dataset_type))}
ValidateRows(dataset_type) ==
    {RowWith(b, f, v) : b \in BaseRows(dataset_type), f \in FieldNames(dataset_type),
                        v \in RawValues \cup {Absent}}

InitValidate ==
    \E d \in {CREDIT, PAYMENT_PLAN} : \E p \in ValidateRows(d) :
        CallOf([pc |-> "call", dataset_type |-> d, payload |-> p, result |-> None])

\* validate_and_normalize(payload, get_schema(dataset_type))
Validate == Returned(validate_and_normalize(run.payload, get_schema(run.dataset_type)))

NextValidate == Validate

SpecValidate == InitValidate /\ [][NextValidate]_vars

(***************************************************************************)
(* external_bank/views.py: GET /external-bank/current/.  The call in       *)
(* progress holds the user and the query parameters (None: not given);     *)
(* the source tables hold rows of two banks.                               *)
(***************************************************************************)

\* csv_read_helpers.normalize_bank_code, normalize_loan_type: (value or "").strip().upper()
normalize_bank_code(value) == IF value = None THEN <<>> ELSE upper(strip(value.s))
normalize_loan_type(value) == IF value = None THEN <<>> ELSE upper(strip(value.s))

ALLOWED_DATASET_TYPES == {CREDIT, PAYMENT_PLAN}

\* int(x) of a query parameter, or of the default
int(x) ==
    IF x.k = "int" THEN x
    ELSE LET s == strip(x.s)
             signed == s # <<>> /\ s[1] \in {"-", "+"}
             ds == IF signed THEN Tail(s) ELSE s
         IN  IF ds = <<>> \/ ~AllDigits(ds) THEN Raise("ValueError")
             ELSE IF signed /\ s[1] = "-" THEN Int_(0 - NatOf(ds))
             ELSE Int_(NatOf(ds))

\* Response(data, status)
Response(data, status) == [k |-> "Response", status |-> status, data |-> data]

\* get_request_body: the three normalized parameters, or a Response
get_request_body(params) ==
    LET bank == normalize_bank_code(params.bank_code)
        loan == normalize_loan_type(params.loan_type)
        dataset == IF params.dataset_type = None THEN <<>>
                   ELSE upper(strip(params.dataset_type.s))
    IN  IF bank = <<>> \/ loan = <<>> THEN Response("required", 400)
        ELSE IF dataset = <<>> THEN Response("required", 400)
        ELSE IF dataset \notin ALLOWED_DATASET_TYPES THEN Response("must be one of", 400)
        ELSE [k |-> "ok", bank_code |-> bank, loan_type |-> loan, dataset_type |-> dataset]

\* filter(bank_code=, loan_type=, id__gt=cursor).order_by("id")[:limit] of a
\* source table, a row's id being its place: the ids
current_ids(table, bank, loan, cursor, limit) ==
    LET ids == {i \in 1..Len(table) :
                  /\ table[i].bank_code = bank
                  /\ table[i].loan_type = loan
                  /\ i > cursor}
    IN  {i \in ids : Cardinality({j \in ids : j < i}) < limit}

\* the Response of CurrentDataView.get once limit and cursor are integers
current_response(body, limit, cursor, states) ==
    LET table == IF body.dataset_type = CREDIT THEN mock_loans ELSE mock_plans
        ids == current_ids(table, body.bank_code, body.loan_type, cursor,
                           IF limit < 1 THEN 1 ELSE IF limit > 10000 THEN 10000 ELSE limit)
        n == Cardinality(ids)
        state == {st \in states : /\ st.bank_code = body.bank_code
                                  /\ st.loan_type = body.loan_type
                                  /\ st.dataset_type = body.dataset_type}
    IN  Response([bank_code |-> body.bank_code,
                  loan_type |-> body.loan_type,
                  dataset_type |-> body.dataset_type,
                  dataset_version |-> IF state = {} THEN None
                                      ELSE Str((CHOOSE st \in state : TRUE).dataset_version),
                  next_cursor |-> IF n > 0 /\ n = (IF limit < 1 THEN 1
                                                   ELSE IF limit > 10000 THEN 10000
                                                   ELSE limit)
                                  THEN Int_(CHOOSE i \in ids : \A j \in ids : j <= i)
                                  ELSE None,
                  data |-> [x \in 1..n |->
                              payload_of(table[CHOOSE i \in ids :
                                                 Cardinality({j \in ids : j < i}) = x - 1],
                                         body.dataset_type)]],
                 200)

\* CurrentDataView.get for an authenticated user: unpacking the Response
\* that get_request_body returns for a bad request iterates a response that
\* is not rendered, which raises
CurrentDataView_get(user, params, states) ==
    LET body == get_request_body(params)
        limit == int(IF params.limit = None THEN Int_(1000) ELSE params.limit)
        cursor == int(IF params.cursor = None THEN Int_(0) ELSE params.cursor)
    IN  IF body.k = "Response" THEN Raise("ContentNotRenderedError")
        ELSE IF IsRaise(limit) THEN Response("limit must be an integer", 400)
        ELSE IF IsRaise(cursor) THEN Response("cursor must be an integer", 400)
        ELSE current_response(body, limit.v, cursor.v, states)

\* The fixture: RETAIL loans of B1 (ids 1 and 3) and of B2 (id 2), a
\* COMMERCIAL loan of B1, a RETAIL plan row of each bank; one DatasetState
CurrentLoans ==
    <<MockLoan(B1, RETAIL, 1), MockLoan(B2, RETAIL, 2), MockLoan(B1, RETAIL, 3),
      MockLoan(B1, COMMERCIAL, 4)>>
CurrentPlans ==
    <<MockLoanPaymentPlan(B1, RETAIL, 1), MockLoanPaymentPlan(B2, RETAIL, 2)>>
DatasetStates ==
    {[bank_code |-> B1, loan_type |-> RETAIL, dataset_type |-> CREDIT,
      dataset_version |-> <<"1", "1">>]}

\* the query parameters of the requests
BankCodeParams == {None, Str(<<" ", "b", "1">>), Str(<<"B", "2">>), Str(<<"Z", "Z">>)}
LoanTypeParams == {None, Str(<<"r", "e", "t", "a", "i", "l">>),
                   Str(<<"C", "O", "M", "M", "E", "R", "C", "I", "A", "L">>)}
DatasetTypeParams == {None, Str(<<"c", "r", "e", "d", "i", "t", " ">>),
                      Str(<<"P", "A", "Y", "M", "E", "N", "T", "_", "P", "L", "A", "N">>),
                      Str(<<"L", "O", "A", "N", "S">>)}
LimitParams == {None, Str(<<"1">>), Str(<<"0">>), Str(<<"x">>)}
CursorParams == {None, Str(<<"1">>), Str(<<"-", "1">>), Str(<<"x">>)}

InitCurrent ==
    \E user \in Users, b \in BankCodeParams, l \in LoanTypeParams,
       d \in DatasetTypeParams, n \in LimitParams, c \in CursorParams :
        /\ mock_loans = CurrentLoans
        /\ mock_plans = CurrentPlans
        /\ loans = {}
        /\ plans = {}
        /\ batches = EmptyFun
        /\ batch_errors = <<>>
        /\ ch_databases = {}
        /\ ch_tables = EmptyFun
        /\ now = 0
        /\ hist = NoHist
        /\ run = [pc |-> "call", user |-> user,
                  params |-> [bank_code |-> b, loan_type |-> l, dataset_type |-> d,
                              limit |-> n, cursor |-> c],
                  result |-> None]

\* GET /external-bank/current/
CurrentGet == Returned(CurrentDataView_get(run.user, run.params, DatasetStates))

NextCurrent == CurrentGet

SpecCurrent == InitCurrent /\ [][NextCurrent]_vars

\* VersionView.get for an authenticated user: the same unpacking, then the
\* DatasetState of the three parameters, if there is one
VersionView_get(user, params, states) ==
    LET body == get_request_body(params)
        state == {st \in states : /\ st.bank_code = body.bank_code
                                  /\ st.loan_type = body.loan_type
                                  /\ st.dataset_type = body.dataset_type}
    IN  IF body.k = "Response" THEN Raise("ContentNotRenderedError")
        ELSE IF state = {} THEN Response([dataset_version |-> None], 200)
        ELSE Response([bank_code |-> body.bank_code,
                       loan_type |-> body.loan_type,
                       dataset_type |-> body.dataset_type,
                       dataset_version |->
                           Str((CHOOSE st \in state : TRUE).dataset_version)],
                      200)

\* GET /external-bank/version/
VersionGet == Returned(VersionView_get(run.user, run.params, DatasetStates))

\* a request to either endpoint
NextEndpoints == CurrentGet \/ VersionGet

SpecEndpoints == InitCurrent /\ [][NextEndpoints]_vars

(***************************************************************************)
(* The table names: the one the data endpoints read, api/views.py          *)
(* resolve_ch_table, and the one a run publishes, resolve_target_table.    *)
(* Both take (x or ""): None is the empty string here.                     *)
(***************************************************************************)
\* resolve_ch_table as it would be if the suffix did not follow the loan type
resolve_ch_table_without_loan_type(dataset_type, loan_type) ==
    LET prefix == IF upper(dataset_type) = CREDIT
                  THEN "fact_loans_current" ELSE "fact_payment_plan_current"
    IN  <<prefix, "_", "retail">>

\* TenantResolverMixin.resolve_ch_table
resolve_ch_table(dataset_type, loan_type) ==
    LET prefix == IF upper(dataset_type) = CREDIT
                  THEN "fact_loans_current" ELSE "fact_payment_plan_current"
        suffix == IF upper(loan_type) = RETAIL THEN "retail" ELSE "commercial"
    IN  <<prefix, "_", suffix>>

\* no name resolved yet
NoTable == <<>>

\* the dataset kinds and loan types the two are called with
DatasetKinds ==
    {<<>>, CREDIT, PAYMENT_PLAN, <<"c", "r", "e", "d", "i", "t">>,
     <<"P", "a", "y", "m", "e", "n", "t", "_", "P", "l", "a", "n">>,
     <<" ", "C", "R", "E", "D", "I", "T">>, <<"L", "O", "A", "N", "S">>,
     <<"C", "R", "E", "D", "I", "T", "S">>}
LoanTypes ==
    {<<>>, RETAIL, COMMERCIAL, <<"r", "e", "t", "a", "i", "l">>,
     <<"C", "o", "m", "m", "e", "r", "c", "i", "a", "l">>,
     <<"R", "E", "T", "A", "I", "L", " ">>, <<"M", "O", "R", "T", "G", "A", "G", "E">>,
     <<"R", "E", "T", "A", "I", "L", "S">>}

InitTables ==
    \E d \in DatasetKinds, l \in LoanTypes :
        CallOf([pc |-> "call", dataset_type |-> d, loan_type |-> l,
                read |-> NoTable, published |-> NoTable])

\* a data endpoint resolves the table it reads
ReadTable ==
    /\ run.pc = "call"
    /\ run.read = NoTable
    /\ run' = [run EXCEPT !.read = resolve_ch_table(run.dataset_type, run.loan_type)]
    /\ UNCHANGED <<mock_loans, mock_plans, loans, plans, batches, batch_errors,
                   ch_databases, ch_tables, now, hist>>

\* a run resolves the table it publishes
PublishTable ==
    /\ run.pc = "call"
    /\ run.published = NoTable
    /\ run' = [run EXCEPT !.published = resolve_target_table(run.dataset_type,
                                                             run.loan_type)]
    /\ UNCHANGED <<mock_loans, mock_plans, loans, plans, batches, batch_errors,
                   ch_databases, ch_tables, now, hist>>

NextTables == ReadTable \/ PublishTable

SpecTables == InitTables /\ [][NextTables]_vars

(***************************************************************************)
(* normalize_rate applied to rate inputs: numbers in several notations,    *)
(* bare or with a marker, text that is no number, and values that are not  *)
(* strings.                                                                *)
(***************************************************************************)
RateNumbers ==
    {<<"0">>, <<"1">>, <<"-", "1">>, <<"0", ".", "5">>, <<"1", ".", "0">>,
     <<"1", ".", "0", "1">>, <<"1", ".", "5">>, <<"1", "2", ".", "5">>,
     <<"1", "2", ",", "5">>, <<"1", "5", "0">>, <<"9", "9", "9", ".", "9">>,
     <<"1", "0", "0", "0">>, <<"1", "5", "0", "0">>, <<"1", " ", "5", "0", "0">>,
     <<"1", ".", "5", "0", "0", ",", "5">>, <<"1", "e", "3">>,
     <<"-", "1", "5", "0", "0">>, <<"a", "b", "c">>, <<"n", "a", "n">>,
     <<"I", "n", "f", "i", "n", "i", "t", "y">>}
RateMarkers ==
    {<<>>, <<"%">>, <<" ", "%", " ">>, <<"b", "p", "s">>, <<" ", "B", "P", "S">>,
     <<"%", "b", "p", "s">>}
RateInputs ==
    {Str(n \o m) : n \in RateNumbers, m \in RateMarkers}
    \cup {None, Str(<<>>), Str(<<" ">>), Int_(0), Int_(1), Int_(12), Int_(1500),
          Int_(0 - 3), Bool(TRUE)}
    \cup {Dec(5, 0 - 1), Dec(50, 0 - 2), Dec(1, 0 - 7), Dec(0, 3), Dec(0 - 5, 2),
          Dec(1, 0), Dec(125, 0 - 1), Dec(15, 2), Inf(TRUE)}

InitRate ==
    \E r \in RateInputs :
        CallOf([pc |-> "call", rate |-> r, result |-> None, again |-> None])

\* normalize_rate(rate_str)
NormalizeRate == Returned(normalize_rate(run.rate))

\* normalize_rate applied to what normalize_rate returned
NormalizeRateAgain ==
    /\ run.pc = "return"
    /\ ~IsRaise(run.result)
    /\ run' = [run EXCEPT !.pc = "again", !.again = normalize_rate(run.result)]
    /\ UNCHANGED <<mock_loans, mock_plans, loans, plans, batches, batch_errors,
                   ch_databases, ch_tables, now, hist>>

NextRate == NormalizeRate \/ NormalizeRateAgain

SpecRate == InitRate /\ [][NextRate]_vars

(***************************************************************************)
(* The normalizers, each applied to raw values of every type a JSON        *)
(* payload can hold.                                                       *)
(***************************************************************************)
NormalizerInputs ==
    RawValues
    \cup {Str(<<"1", "0", ",", "7">>), Str(<<"1", "0", ".", "5">>),
          Str(<<"-", "2", ".", "5">>), Str(<<"1", "0", ",", "0">>),
          Str(<<"-", "0", ",", "7">>), Str(<<"1", ",", "5">>), Str(<<"1", ".", "5">>),
          Str(<<" ", "7", ",", "2", "5", " ">>), Str(<<"1", " ", "0", "0", "0", ",", "5">>),
          Str(<<"1", ".", "2", "3", "4", ".", "5", "6">>),
          Str(<<"1", ".", "2", "3", "4", ",", "5", "6">>),
          Str(<<"1", ",", "2", "3", "4", ",", "5", "6">>),
          Str(<<"1", ".", "2", ".", "3", ".", "4">>),
          Str(<<"1", ",", "x">>), Str(<<".", "5">>), Str(<<"5", ".">>),
          Str(<<"1", "e", "3">>), Str(<<"I", "n", "f", "i", "n", "i", "t", "y">>),
          Str(<<"s", "N", "a", "N">>), Str(<<"N", "a", "N">>),
          Str(<<"n", "a", "n", "%">>), Str(<<"s", "n", "a", "n", "b", "p", "s">>),
          Str(<<"2", "0", "2", "5", "0", "1", "3", "1">>),
          Str(<<"G", "E", "C", "I", "K", "M", "I", "S">>),
          Float(<<"1", "2", ".", "5">>), Float(<<"-", "2", ".", "5">>),
          Float(<<"1", "e", "-", "0", "7">>), Float(<<"n", "a", "n">>),
          Float(<<"i", "n", "f">>), Int_(0), Int_(1500), Bool(FALSE)}

Normalizers == {"date", "decimal", "rate", "int", "string", "category"}

InitNormalize ==
    \E f \in Normalizers, v \in NormalizerInputs :
        CallOf([pc |-> "call", fn |-> f, value |-> v, result |-> None])

NormalizeDateCall == run.fn = "date" /\ Returned(normalize_date(run.value))
NormalizeDecimalCall == run.fn = "decimal" /\ Returned(normalize_decimal(run.value))
NormalizeRateCall == run.fn = "rate" /\ Returned(normalize_rate(run.value))
NormalizeIntCall == run.fn = "int" /\ Returned(normalize_int(run.value))
NormalizeStringCall == run.fn = "string" /\ Returned(normalize_string(run.value))
NormalizeCategoryCall == run.fn = "category" /\ Returned(normalize_category(run.value))

NextNormalize ==
    \/ NormalizeDateCall
    \/ NormalizeDecimalCall
    \/ NormalizeRateCall
    \/ NormalizeIntCall
    \/ NormalizeStringCall
    \/ NormalizeCategoryCall

SpecNormalize == InitNormalize /\ [][NextNormalize]_vars

(***************************************************************************)
(* One invocation of run_ingestion for the RETAIL loans of B1 while        *)
(* external_bank/views.py CSVUploadView.process_upload commits uploads to  *)
(* the same source.  An upload is one transaction; the run sees it in the  *)
(* queries it starts afterwards: the count, the dry pass, the load pass.   *)
(***************************************************************************)
\* bulk_upsert_credit: the row of the key is replaced, a new key is appended
Upserted(rows, row) ==
    LET at == {i \in 1..Len(rows) :
                 /\ rows[i].bank_code = row.bank_code
                 /\ rows[i].loan_type = row.loan_type
                 /\ rows[i].external_id = row.external_id}
    IN  IF at = {} THEN Append(rows, row)
        ELSE [i \in 1..Len(rows) |-> IF i \in at THEN row ELSE rows[i]]

\* process_upload of a CREDIT file of one row for (B1, RETAIL), committed
\* while no pass of the run is iterating over the source
Upload ==
    /\ run.pc \notin {"load_row", "flush_ch", "flush_pg"}
    /\ \E p \in 1..Len(CreditSamples) :
         /\ mock_loans' = Upserted(mock_loans, MockLoan(B1, RETAIL, p))
         /\ mock_loans' # mock_loans
         /\ Len(mock_loans') <= MaxRows + 1
    /\ UNCHANGED <<mock_plans, loans, plans, batches, batch_errors,
                   ch_databases, ch_tables, now, run, hist>>

InitUpload == \E src \in {<< <<>>, <<>> >>, << <<1>>, <<>> >>} : InitWith(src, FALSE)

CallDuringUploads ==
    /\ now = 0
    /\ Invoke(Str(B1), Str(RETAIL), Str(CREDIT), NoId)

NextUpload == CallDuringUploads \/ Steps \/ Upload

SpecUpload == InitUpload /\ [][NextUpload]_vars

(***************************************************************************)
(* Successive invocations of run_ingestion for either tenant, each for a   *)
(* new Batch or with the id of a Batch that an earlier invocation left.    *)
(***************************************************************************)
InitTenants == InitWith(<< <<3>>, <<>> >>, TRUE)

CallFor ==
    /\ now < MaxRuns
    /\ \E t \in {B1, B2}, l \in {RETAIL, COMMERCIAL}, b \in {NoId} \cup DOMAIN batches :
         Invoke(Str(t), Str(l), Str(CREDIT), b)

NextTenants == CallFor \/ Steps

SpecTenants == InitTenants /\ [][NextTenants]_vars

(***************************************************************************)
(* api/views.py: POST /api/sync/ served by several request handlers at     *)
(* once, with the runner threads they start.  Here run holds the handlers  *)
(* (reqs) and the Batches whose process died (dead); of run_ingestion only *)
(* the writes of Batch.status are followed.                                *)
(***************************************************************************)
IdleRequest ==
    [pc |-> "idle", tenant |-> <<>>, loan_type |-> <<>>, response |-> 0, batch_id |-> NoId]

\* the Batches the filter of SyncViewSet.create finds
ActiveBatches(tenant, loan_type) ==
    {id \in DOMAIN batches :
        /\ batches[id].tenant = tenant
        /\ batches[id].loan_type = loan_type
        /\ batches[id].status \in {STARTED, PROCESSING}}

Handler(i) == run.reqs[i]
Answered(i, req, status) ==
    run' = [run EXCEPT !.reqs[i] = [req EXCEPT !.pc = "done", !.response = status]]

\* the requests that passed the filter and have not created their Batch yet
Creating == {i \in 1..MaxRequests : Handler(i).pc = "create"}

\* SyncViewSet.create up to the filter(...).exists() query; requests come as
\* long as fewer than MaxRuns Batches exist or are about to
SyncCheck(i, loan_type) ==
    /\ Handler(i).pc = "idle"
    /\ \E user \in Users, tenant_id \in {B1, <<"Z", "Z">>} :
         LET tenant == resolve_tenant(user, tenant_id)
             req == [IdleRequest EXCEPT !.loan_type = loan_type]
         IN  IF tenant = FORBIDDEN THEN Answered(i, req, 403)
             ELSE IF tenant = None THEN Answered(i, req, 404)
             ELSE IF ActiveBatches(tenant.tenant_code, loan_type) # {}
             THEN Answered(i, [req EXCEPT !.tenant = tenant.tenant_code], 409)
             ELSE /\ Cardinality(DOMAIN batches) + Cardinality(Creating) < MaxRuns
                  /\ run' = [run EXCEPT !.reqs[i] =
                                [req EXCEPT !.pc = "create",
                                            !.tenant = tenant.tenant_code]]
    /\ UNCHANGED <<mock_loans, mock_plans, loans, plans, batches, batch_errors,
                   ch_databases, ch_tables, now, hist>>

\* SyncViewSet.create from Batch.objects.create on: the Batch is STARTED, the
\* runner thread is started, the answer is 202
SyncInsert(i) ==
    /\ Handler(i).pc = "create"
    /\ \E id \in {CHOOSE u \in UUIDs : u \notin DOMAIN batches} :
         /\ batches' = [b \in DOMAIN batches \cup {id} |->
                           IF b = id
                           THEN Batch(Handler(i).tenant, STARTED, Handler(i).loan_type, now)
                           ELSE batches[b]]
         /\ Answered(i, [Handler(i) EXCEPT !.batch_id = id], 202)
    /\ UNCHANGED <<mock_loans, mock_plans, loans, plans, batch_errors,
                   ch_databases, ch_tables, now, hist>>

\* the response is sent; the handler takes the next request
Respond(i) ==
    /\ Handler(i).pc = "done"
    /\ run' = [run EXCEPT !.reqs[i] = IdleRequest]
    /\ UNCHANGED <<mock_loans, mock_plans, loans, plans, batches, batch_errors,
                   ch_databases, ch_tables, now, hist>>

\* the runner thread of a Batch: init_batch saves PROCESSING
RunnerInit(id) ==
    /\ id \in DOMAIN batches \ run.dead
    /\ batches[id].status = STARTED
    /\ batches' = [batches EXCEPT ![id].status = PROCESSING]
    /\ UNCHANGED <<mock_loans, mock_plans, loans, plans, batch_errors,
                   ch_databases, ch_tables, now, run, hist>>

\* the runner thread of a Batch: the save that ends run_ingestion
RunnerEnd(id) ==
    /\ id \in DOMAIN batches \ run.dead
    /\ batches[id].status = PROCESSING
    /\ \E status \in Terminal : batches' = [batches EXCEPT ![id].status = status]
    /\ UNCHANGED <<mock_loans, mock_plans, loans, plans, batch_errors,
                   ch_databases, ch_tables, now, run, hist>>

\* the process that runs the daemon thread of a Batch dies: nothing is
\* written, the thread is gone
ProcessDies(id) ==
    /\ id \in DOMAIN batches \ run.dead
    /\ batches[id].status \in {STARTED, PROCESSING}
    /\ run' = [run EXCEPT !.dead = @ \cup {id}]
    /\ UNCHANGED <<mock_loans, mock_plans, loans, plans, batches, batch_errors,
                   ch_databases, ch_tables, now, hist>>

InitRequests ==
    /\ mock_loans = <<>> /\ mock_plans = <<>>
    /\ loans = {} /\ plans = {}
    /\ ch_databases = {} /\ ch_tables = EmptyFun
    /\ batches = EmptyFun
    /\ batch_errors = <<>>
    /\ now = 1
    /\ run = [pc |-> "serving", reqs |-> [i \in 1..MaxRequests |-> IdleRequest],
              dead |-> {}]
    /\ hist = NoHist

SyncChecks(loan_type) == \E i \in 1..MaxRequests : SyncCheck(i, loan_type)
SyncInserts == \E i \in 1..MaxRequests : SyncInsert(i)
Responds == \E i \in 1..MaxRequests : Respond(i)
RunnerInits == \E id \in UUIDs : RunnerInit(id)
RunnerEnds == \E id \in UUIDs : RunnerEnd(id)
ProcessDeaths == \E id \in UUIDs : ProcessDies(id)

NextRequests ==
    \/ SyncChecks(RETAIL)
    \/ SyncChecks(COMMERCIAL)
    \/ SyncInserts
    \/ Responds
    \/ RunnerInits
    \/ RunnerEnds
    \/ ProcessDeaths

SpecRequests == InitRequests /\ [][NextRequests]_vars

\* a request for loan_type that is resolved to tenant B1
Request(loan_type) ==
    \E i \in 1..MaxRequests : SyncCheck(i, loan_type) /\ run'.reqs[i].tenant = B1

\* Requests for the RETAIL loans of B1 keep coming, every handler that has
\* taken a request finishes it, and every runner thread whose process is
\* alive takes its next step.  Nothing makes a process die, and nothing
\* makes requests for the COMMERCIAL loans come.
SpecRequestsFair ==
    /\ InitRequests
    /\ [][NextRequests]_vars
    /\ SF_vars(Request(RETAIL))
    /\ \A i \in 1..MaxRequests : WF_vars(Respond(i)) /\ WF_vars(SyncInsert(i))
    /\ WF_vars(RunnerInits) /\ WF_vars(RunnerEnds)

(***************************************************************************)
(* load_chunked on its own, over sources longer than one chunk.  The pass  *)
(* starts where run_ingestion calls it: the dry pass found every row       *)
(* valid and init_clickhouse created the staging table.                    *)
(***************************************************************************)
LoadBatch(n) ==
    [Batch(B1, PROCESSING, RETAIL, 1) EXCEPT !.total_rows = n, !.valid_rows = n]

InitLoad ==
    \E n \in 1..MaxLoad, old \in BOOLEAN, id \in {CHOOSE u \in UUIDs : TRUE} :
       /\ mock_loans = [i \in 1..n |-> MockLoan(B1, RETAIL, Len(CreditSamples) + i)]
                        \o <<MockLoan(B1, COMMERCIAL, 1)>>
       /\ mock_plans = <<>>
       /\ loans = IF old THEN {OldLoan(B1, RETAIL), OldLoan(B1, COMMERCIAL)} ELSE {}
       /\ plans = {}
       /\ batches = (id :> LoadBatch(n))
       /\ batch_errors = <<>>
       /\ now = 1
       /\ run = [IdleRun EXCEPT !.pc = "begin_load", !.tenant_id = B1,
                                !.loan_type = RETAIL, !.dataset_type = CREDIT,
                                !.batch_id = id, !.batch = LoadBatch(n),
                                !.valid_count = n]
       /\ ch_databases = {ch_db}
       /\ ch_tables = (<<ch_db, staging>> :> [rows |-> <<>>])
                       @@ (IF old THEN <<ch_db, target_table>> :>
                                         [rows |-> <<OldRow(RETAIL)>>]
                           ELSE EmptyFun)
       /\ hist = [NoHist EXCEPT !.pre_loans = loans, !.pre_tables = ch_tables,
                                !.pre_batches = batches, !.reads = TRUE, !.dry = TRUE,
                                !.statuses = <<STARTED, PROCESSING>>]

NextLoad == BeginLoad \/ LoadRow \/ FlushCh \/ FlushPg \/ Commit

SpecLoad == InitLoad /\ [][NextLoad]_vars

(***************************************************************************)
(* The claims.  What they speak of, in terms of the state:                 *)
(***************************************************************************)
\* the invocation in progress has resolved its Batch
Resolved == run.batch_id # NoId
\* ... and has returned or raised; its caller has the outcome
Ended == run.pc = "done" /\ Resolved
TheBatch == batches[run.batch_id]

\* the relational rows of the run's (tenant, loan type, dataset kind) partition
Partition(ls, ps) ==
    {x \in (IF run.dataset_type = CREDIT THEN ls ELSE ps) :
       x.tenant = run.batch.tenant /\ x.loan_type = run.loan_type}

\* what a reader of the published table of the run's (dataset kind, loan type) sees
Published(tables) ==
    IF <<ch_db, target_table>> \in DOMAIN tables
    THEN [exists |-> TRUE, rows |-> tables[<<ch_db, target_table>>].rows]
    ELSE [exists |-> FALSE, rows |-> <<>>]

\* source row i of the run, validated on its own
RowResult(i) ==
    normalize_row(payload_of(qs[i], run.dataset_type), get_schema(run.dataset_type))
CreditIds == get_credit_id_set(bank_code, run.loan_type, run.dataset_type)
RefKnown(i) ==
    run.dataset_type = PAYMENT_PLAN =>
        strip(str(get(payload_of(qs[i], run.dataset_type), "loan_account_number")))
            \in CreditIds
HasErrors(res) == ~IsRaise(res) /\ res.errors # <<>>
RowInvalid(i) == HasErrors(RowResult(i)) \/ (~IsRaise(RowResult(i)) /\ ~RefKnown(i))
RowRaises(i) == IsRaise(RowResult(i))

\* the dry pass reaches an invalid row: no row before it stops the pass
FindsInvalid ==
    \E i \in 1..Len(qs) : RowInvalid(i) /\ \A j \in 1..(i - 1) : ~RowRaises(j)

\* the complete new dataset, as relational rows and as rows of the analytical table
NewRelationalRow(item, normalized) ==
    IF run.dataset_type = CREDIT
    THEN Loan(run.batch.tenant, run.loan_type, normalized)
    ELSE LoanPaymentPlan(run.batch.tenant, run.loan_type, normalized, item.payload)
NewRelational == {NewRelationalRow(qs[i], RowResult(i).normalized) : i \in 1..Len(qs)}
NewAnalytical ==
    [i \in 1..Len(qs) |->
        ch_row(ch_record(RowResult(i).normalized, run.batch_id, run.loan_type),
               get_clickhouse_columns(run.dataset_type) \o <<"batch_id", "loan_type">>)]

\* C1: a run whose dry validation pass finds an invalid row returns false, its
\* Batch ends FAILED_VALIDATION with invalid_rows the number of invalid rows,
\* the relational partition is as it was before the run, and no statement was
\* sent to the analytical store.
C1_InvalidRowsFailValidation ==
    (Ended /\ hist.dry /\ FindsInvalid) =>
        /\ run.result = Bool(FALSE)
        /\ TheBatch.status = FAILED_VALIDATION
        /\ TheBatch.invalid_rows = Cardinality({i \in 1..Len(qs) : RowInvalid(i)})
        /\ Partition(loans, plans) = Partition(hist.pre_loans, hist.pre_plans)
        /\ hist.ch_log = <<>>

\* C2: when a run over a non-empty source has ended, either the Batch is
\* SUCCESS and the relational partition and the published table both hold the
\* complete new dataset, or the Batch is FAILED or FAILED_VALIDATION and both
\* hold what they held before the run.
C2_AllOrNothing ==
    (Ended /\ Len(qs) > 0) =>
        \/ /\ TheBatch.status = SUCCESS
           /\ Partition(loans, plans) = NewRelational
           /\ Published(ch_tables) = [exists |-> TRUE, rows |-> NewAnalytical]
        \/ /\ TheBatch.status \in {FAILED, FAILED_VALIDATION}
           /\ Partition(loans, plans) = Partition(hist.pre_loans, hist.pre_plans)
           /\ Published(ch_tables) = Published(hist.pre_tables)

\* C3: at every instant of a run, a reader of the published table sees what
\* it held before the run (no table, on a first publish) or the complete new
\* dataset: never an empty placeholder, a part or a mixture.
C3_ReaderSeesWholeDataset ==
    (Resolved /\ run.pc # "idle") =>
        \/ Published(ch_tables) = Published(hist.pre_tables)
        \/ Published(ch_tables) = [exists |-> TRUE, rows |-> NewAnalytical]

\* C4: over successive invocations the status of a Batch only moves
\* STARTED -> PROCESSING -> SUCCESS, FAILED_VALIDATION or FAILED, and a
\* terminal status never changes, an invocation given the id of a terminal
\* Batch included.
Forward ==
    {<<STARTED, PROCESSING>>} \cup {<<PROCESSING, s>> : s \in Terminal}
C4_StatusOnlyMovesForward ==
    [][\A id \in DOMAIN batches :
          \/ batches'[id].status = batches[id].status
          \/ <<batches[id].status, batches'[id].status>> \in Forward]_vars

C6_ZeroRowsShortCircuit ==
    (Ended /\ Len(qs) = 0) =>
        /\ hist.statuses = <<STARTED, PROCESSING, SUCCESS>>
        /\ TheBatch.status = SUCCESS
        /\ TheBatch.record_count = 0
        /\ TheBatch.valid_rows = 0
        /\ TheBatch.invalid_rows = 0
        /\ run.result = Bool(TRUE)
        /\ ~hist.dry
        /\ hist.ch_log = <<>>
        /\ ch_tables = hist.pre_tables
        /\ loans = hist.pre_loans
        /\ plans = hist.pre_plans

\* a zero-row run has ended over a partition that held rows
C6_Witness ==
    /\ Ended
    /\ Len(qs) = 0
    /\ Partition(loans, plans) # {}

\* the key of a row in the source, in the relational store, in the staging table
SourceKey(item) ==
    IF run.dataset_type = CREDIT THEN <<item.external_id>>
    ELSE <<item.loan_external_id, item.payload>>
RelationalKey(x) ==
    IF run.dataset_type = CREDIT THEN <<x.external_id>>
    ELSE <<x.loan_external_id, x.payload>>
StagedId(r) ==
    IF run.dataset_type = CREDIT THEN <<r["loan_account_number"].s>>
    ELSE <<r["loan_account_number"].s, r["installment_number"]>>
RelationalId(x) ==
    IF run.dataset_type = CREDIT THEN <<x.external_id>>
    ELSE <<x.loan_external_id, x.installment_number>>

\* C7: after a run that ends SUCCESS over a non-empty source the relational
\* partition is one row per source row, no row from before the run left; the
\* rows appended to the staging table are the same set; record_count is
\* their number.
C7_SuccessLoadsEveryRow ==
    (Ended /\ TheBatch.status = SUCCESS /\ Len(qs) > 0) =>
        /\ Cardinality(Partition(loans, plans)) = Len(qs)
        /\ {RelationalKey(x) : x \in Partition(loans, plans)}
             = {SourceKey(qs[i]) : i \in 1..Len(qs)}
        /\ Partition(loans, plans) \cap Partition(hist.pre_loans, hist.pre_plans) = {}
        /\ Len(hist.staged) = Len(qs)
        /\ {StagedId(hist.staged[i]) : i \in 1..Len(hist.staged)}
             = {RelationalId(x) : x \in Partition(loans, plans)}
        /\ TheBatch.record_count = Len(qs)

\* a run has ended SUCCESS over more than one row, replacing an earlier snapshot
C7_Witness ==
    /\ Ended
    /\ TheBatch.status = SUCCESS
    /\ Len(qs) > 1
    /\ Partition(hist.pre_loans, hist.pre_plans) # {}

\* C8: in the dry pass of a PAYMENT_PLAN run every row whose loan reference
\* is not in the CREDIT id set gets an UNKNOWN_LOAN_ID error and is not
\* counted valid, whatever its other fields.
C8_UnknownLoanAlwaysReported ==
    (run.pc \in {"persist_errors", "create_database"} /\ run.dataset_type = PAYMENT_PLAN) =>
        /\ \A i \in 1..Len(qs) :
              ~RefKnown(i) =>
                 \E j \in 1..Len(run.errors_to_create) :
                    /\ run.errors_to_create[j].row_number = i
                    /\ run.errors_to_create[j].error_code = UNKNOWN_LOAN_ID
        /\ run.valid_count <= Cardinality({i \in 1..Len(qs) : RefKnown(i)})

\* C9: when a run has ended SUCCESS after loading, the tenant's analytical
\* database holds no staging table of the run's target table: the one a
\* crashed earlier run left has been dropped.
IsStagingOf(name, target) ==
    /\ Len(name) = Len(target) + 2
    /\ SubSeq(name, 1, Len(target)) = target
    /\ name[Len(target) + 1] = "_staging_"
C9_NoOrphanAfterSuccess ==
    (Ended /\ TheBatch.status = SUCCESS /\ hist.ch_log # <<>>) =>
        \A n \in DOMAIN ch_tables : n[1] = ch_db => ~IsStagingOf(n[2], target_table)

\* C10: when the tenant is empty after trimming, or the loan type is not
\* RETAIL or COMMERCIAL, or the dataset kind, CREDIT when missing, is not
\* CREDIT or PAYMENT_PLAN, the call raises the invalid-argument error at
\* once: no Batch is created or changed, the source is not read, neither
\* destination is touched.
ArgText(x) == IF x = None THEN <<>> ELSE upper(strip(x.s))
BadArgs(args) ==
    \/ ArgText(args[1]) = <<>>
    \/ ArgText(args[2]) \notin {RETAIL, COMMERCIAL}
    \/ /\ args[3] \notin {None, Str(<<>>)}
       /\ ArgText(args[3]) \notin {CREDIT, PAYMENT_PLAN}
C10_BadArgumentsRaiseFirst ==
    (hist.args # <<>> /\ BadArgs(hist.args)) =>
        /\ run.pc \in {"done", "idle"}
        /\ run.pc = "done" => run.result = Raise("ValueError")
        /\ batches = hist.pre_batches
        /\ ~hist.reads
        /\ ~hist.dry
        /\ hist.ch_log = <<>>
        /\ loans = hist.pre_loans
        /\ plans = hist.pre_plans
        /\ ch_tables = hist.pre_tables

\* a call with a blank dataset kind has raised
C10_Witness ==
    /\ run.pc = "done"
    /\ hist.args # <<>>
    /\ hist.args[3] = Str(<<" ", " ">>)
    /\ ArgText(hist.args[1]) # <<>>
    /\ ArgText(hist.args[2]) = RETAIL
    /\ run.result = Raise("ValueError")

\* C11: whatever a source row holds, a run whose dry pass meets a row that
\* is in error, or that the validator cannot process, collects the errors:
\* it returns false with the Batch FAILED_VALIDATION and both destinations
\* as they were; no row content makes the run raise and end FAILED.
C11_RowErrorsNeverFatal ==
    (Ended /\ hist.dry /\ \E i \in 1..Len(qs) : RowInvalid(i) \/ RowRaises(i)) =>
        /\ TheBatch.status = FAILED_VALIDATION
        /\ ~IsRaise(run.result)
        /\ loans = hist.pre_loans
        /\ plans = hist.pre_plans
        /\ ch_tables = hist.pre_tables

\* What the claims about validate speak of: the call that has returned or
\* raised, the schema, a field's raw value, the errors recorded for a field
Validated == run.pc = "return" /\ "payload" \in DOMAIN run
Schema == get_schema(run.dataset_type)
RawOf(spec) == get(run.payload, spec.name)
ErrorsOf(code, spec) ==
    {j \in 1..Len(run.result.errors) :
        run.result.errors[j] = [code |-> code, field |-> spec.name]}
Blank(v) == v.k = "str" /\ strip(v.s) = <<>>

\* C12: for every row and every required field whose raw value is absent,
\* null, empty or, for a string field, blank, validate returns exactly one
\* MISSING_FIELD error for the field and a null in the field's slot.
C12_MissingRequiredField ==
    Validated =>
        \A i \in 1..Len(Schema) :
            (/\ Schema[i].required
             /\ \/ RawOf(Schema[i]) \in {None, Str(<<>>)}
                \/ Schema[i].field_type = "str" /\ Blank(RawOf(Schema[i]))) =>
                /\ ~IsRaise(run.result)
                /\ Cardinality(ErrorsOf(MISSING_FIELD, Schema[i])) = 1
                /\ run.result.normalized[Schema[i].name] = None

\* the format error of a field type
FormatError(field_type) ==
    CASE field_type = "int" -> INVALID_INT_FORMAT
      [] field_type = "decimal" -> INVALID_DECIMAL_FORMAT
      [] field_type = "rate" -> INVALID_RATE_FORMAT
      [] field_type = "date" -> INVALID_DATE_FORMAT

\* C13: for every row and every integer, decimal, rate or date field whose
\* raw value is not empty and for which the normalizer yields null, validate
\* returns the format error of the type for the field, once, and a null in
\* the field's slot.
C13_UnparseableFormatError ==
    Validated =>
        \A i \in 1..Len(Schema) :
            (/\ Schema[i].field_type \in {"int", "decimal", "rate", "date"}
             /\ RawOf(Schema[i]) \notin {None, Str(<<>>)}
             /\ normalize_field(Schema[i].field_type, RawOf(Schema[i])) = None) =>
                /\ ~IsRaise(run.result)
                /\ Cardinality(ErrorsOf(FormatError(Schema[i].field_type), Schema[i])) = 1
                /\ run.result.normalized[Schema[i].name] = None

\* C14: the normalized record validate returns has the schema's field names
\* as its keys, neither more nor less, errors or not; the row load_chunked
\* builds from it holds every column of the analytical insert.
C14_NormalizedHasEveryField ==
    (Validated /\ ~IsRaise(run.result)) =>
        /\ DOMAIN run.result.normalized = FieldNames(run.dataset_type)
        /\ \A c \in 1..Len(get_clickhouse_columns(run.dataset_type)) :
              get_clickhouse_columns(run.dataset_type)[c]
                 \in DOMAIN ch_record(run.result.normalized, <<"0a", "1">>, RETAIL)
        /\ {"batch_id", "loan_type"}
              \subseteq DOMAIN ch_record(run.result.normalized, <<"0a", "1">>, RETAIL)

\* validate has returned errors for a row that lacks a key, the slot null
C14_Witness ==
    /\ Validated
    /\ ~IsRaise(run.result)
    /\ run.result.errors # <<>>
    /\ "loan_account_number" \notin DOMAIN run.payload
    /\ run.result.normalized["loan_account_number"] = None

\* v is within the bounds the field declares
Within(v, spec) ==
    CASE v.k = "int" ->
           /\ spec.min_value = None \/ v.v >= spec.min_value.v
           /\ spec.max_value = None \/ v.v <= spec.max_value.v
      [] v.k = "dec" ->
           /\ spec.min_value = None \/ DecCmp(v, Dec(spec.min_value.v, 0)) >= 0
           /\ spec.max_value = None \/ DecCmp(v, Dec(spec.max_value.v, 0)) <= 0
      [] v.k = "inf" ->
           /\ spec.min_value = None \/ ~v.n
           /\ spec.max_value = None \/ v.n
      [] OTHER -> FALSE

\* C15: when validate returns no error, every required field of the
\* normalized record is not null, every required category is not UNKNOWN,
\* and every integer, decimal or rate is null or within its bounds.
C15_AcceptedRecordIsSound ==
    (Validated /\ ~IsRaise(run.result) /\ run.result.errors = <<>>) =>
        \A i \in 1..Len(Schema) :
            /\ Schema[i].required => run.result.normalized[Schema[i].name] # None
            /\ (Schema[i].required /\ Schema[i].field_type = "category") =>
                   run.result.normalized[Schema[i].name] # Str(UNKNOWN)
            /\ Schema[i].field_type \in {"int", "decimal", "rate"} =>
                   \/ run.result.normalized[Schema[i].name] = None
                   \/ Within(run.result.normalized[Schema[i].name], Schema[i])

\* a row is accepted with a bounded field that is not required filled in
C15_Witness ==
    /\ Validated
    /\ ~IsRaise(run.result)
    /\ run.result.errors = <<>>
    /\ run.dataset_type = CREDIT
    /\ run.result.normalized["default_probability"] = Dec(5, 0 - 1)
    /\ run.result.normalized["loan_status_code"] = Str(ACTIVE)

\* C16: whatever the orchestrator and its caller do, a Batch's started_at,
\* once set, keeps its value, and its completed_at is written once, in the
\* step that takes the Batch to a terminal status, and never after.
C16_TimestampsWrittenOnce ==
    [][\A id \in DOMAIN batches :
          /\ batches[id].started_at # NoTime =>
                batches'[id].started_at = batches[id].started_at
          /\ batches'[id].completed_at # batches[id].completed_at =>
                /\ batches[id].completed_at = NoTime
                /\ batches[id].status \notin Terminal
                /\ batches'[id].status \in Terminal]_vars

\* what the validation of source row i comes to, res being its outcome
RowClassOf(res, i) ==
    IF IsRaise(res) THEN "raises"
    ELSE IF res.errors # <<>> \/ ~RefKnown(i) THEN "invalid"
    ELSE "valid"
RowClasses == [i \in 1..Len(qs) |-> RowClassOf(RowResult(i), i)]
\* a row stopped the pass, or the Batch's counts are those of the rows so classed
CountsMatch(classes) ==
    \/ \E i \in DOMAIN classes : classes[i] = "raises"
    \/ /\ TheBatch.invalid_rows
             = Cardinality({i \in DOMAIN classes : classes[i] = "invalid"})
       /\ TheBatch.valid_rows
             = Cardinality({i \in DOMAIN classes : classes[i] = "valid"})
       /\ TheBatch.valid_rows + TheBatch.invalid_rows = TheBatch.total_rows
       /\ TheBatch.total_rows = Len(classes)
\* the dry pass of the run has gone over every row and returned its counts
DryPassDone == Resolved /\ hist.dry /\ \A i \in 1..Len(qs) : ~RowRaises(i)
\* the saves of the run, by position, that wrote field f
Wrote(f) == {i \in 1..Len(hist.saves) : f \in hist.saves[i]}

\* C17: when the dry pass of a run has gone over every row and returned, and
\* still when the run has ended, invalid_rows is the number of source rows
\* with at least one error, valid_rows the number of rows with none, and
\* they add up to total_rows, the number of source rows; in every run
\* total_rows is saved before valid_rows and invalid_rows, these two
\* together and not after record_count (before it when the dry pass ran),
\* and no count is saved twice.
C17_CountsSetOncePerPhase ==
    Resolved =>
        /\ (hist.dry /\ run.pc \in {"persist_errors", "create_database", "done"}) =>
              CountsMatch(RowClasses)
        /\ hist.dry =>
              \A i \in Wrote("valid_rows"), j \in Wrote("record_count") : i < j
        /\ Wrote("valid_rows") = Wrote("invalid_rows")
        /\ \A i \in Wrote("total_rows"), j \in Wrote("valid_rows") : i < j
        /\ \A i \in Wrote("valid_rows"), j \in Wrote("record_count") : i <= j
        /\ \A f \in {"total_rows", "valid_rows", "invalid_rows", "record_count"} :
              Cardinality(Wrote(f)) <= 1

\* the dry pass has returned over a valid row and a row with several errors,
\* which it counted once
C17_Witness ==
    /\ run.pc = "done"
    /\ DryPassDone
    /\ TheBatch.valid_rows = 1
    /\ TheBatch.invalid_rows = 1
    /\ Len(run.errors_to_create) > 1
    /\ Wrote("valid_rows") # {}

\* the rows of the source tables that belong to the bank of tenant_code
RowsOfTenant(tenant_code) ==
    {payload_of(mock_loans[i], CREDIT) :
        i \in {j \in 1..Len(mock_loans) : mock_loans[j].bank_code = upper(tenant_code)}}
    \cup {payload_of(mock_plans[i], PAYMENT_PLAN) :
        i \in {j \in 1..Len(mock_plans) : mock_plans[j].bank_code = upper(tenant_code)}}

\* C18: for a user who is not a superuser and is assigned to a tenant, every
\* row in a response of the current-data endpoint is a row of that tenant,
\* whatever bank_code the request names.
C18_CurrentDataWithinTenant ==
    (/\ run.pc = "return"
     /\ ~is_superuser(run.user)
     /\ run.user \in DOMAIN UserTenant
     /\ run.result.k = "Response"
     /\ run.result.status = 200) =>
        \A i \in 1..Len(run.result.data.data) :
            run.result.data.data[i] \in RowsOfTenant(UserTenant[run.user].tenant_code)

\* C19: the four combinations of dataset kind and loan type give four
\* distinct table names, and for every dataset kind and loan type the table
\* a data endpoint reads is the table a run publishes.
C19_ReadsWhatIsPublished ==
    /\ (run.read # NoTable /\ run.published # NoTable) => run.read = run.published
    /\ (/\ run.read # NoTable
        /\ run.dataset_type \in {CREDIT, PAYMENT_PLAN}
        /\ run.loan_type \in {RETAIL, COMMERCIAL}) =>
           /\ Cardinality({resolve_ch_table(d, l) :
                             d \in {CREDIT, PAYMENT_PLAN}, l \in {RETAIL, COMMERCIAL}}) = 4
           /\ \A d \in {CREDIT, PAYMENT_PLAN}, l \in {RETAIL, COMMERCIAL} :
                 resolve_target_table(d, l) = run.read
                     => (d = run.dataset_type /\ l = run.loan_type)

\* both names are resolved for COMMERCIAL payment plans
C19_Witness ==
    /\ run.dataset_type = PAYMENT_PLAN
    /\ run.loan_type = COMMERCIAL
    /\ run.read = <<"fact_payment_plan_current", "_", "commercial">>
    /\ run.published = run.read

\* the text of a rate input, lower-cased and stripped, and its number once
\* the marker is taken out
RateText == strip(lower(str(run.rate)))
Unmarked(s, marker) == normalize_decimal(Str(strip(replace(s, marker, <<>>))))
\* r is the number v divided by 10^n
Scaled(r, v, n) == r.k = "dec" /\ DecCmp(Dec(r.m, r.x + n), v) = 0
\* the result r is what the rule for a text without marker gives for its number v
PlainRule(v, r) ==
    v.k = "dec" =>
        IF DecCmp(v, Dec(1, 0)) > 0
        THEN IF DecCmp(v, Dec(1000, 0)) >= 0 THEN Scaled(r, v, 4) ELSE Scaled(r, v, 2)
        ELSE r = v
\* the result r is what the rules give for the text s
RateRule(s, r) ==
    IF Contains(s, <<"b", "p", "s">>)
    THEN Unmarked(s, <<"b", "p", "s">>).k = "dec"
            => Scaled(r, Unmarked(s, <<"b", "p", "s">>), 4)
    ELSE IF Contains(s, <<"%">>)
    THEN Unmarked(s, <<"%">>).k = "dec" => Scaled(r, Unmarked(s, <<"%">>), 2)
    ELSE PlainRule(normalize_decimal(Str(s)), r)

\* C20: for every rate input that holds a number, with a "bps" marker the
\* result is the number divided by 10000, with a "%" marker the number
\* divided by 100, with no marker a number above 1 divided by 10000 when it
\* is at least 1000 and by 100 otherwise, and a number up to 1 as it is;
\* "12.5%" gives 0.125, "150bps" gives 0.015 and "1500" gives 0.15.
C20_RateRules ==
    (run.pc = "return" /\ ~IsEmptyRaw(run.rate)) =>
        /\ RateRule(RateText, run.result)
        /\ run.rate = Str(<<"1", "2", ".", "5", "%">>)
              => Scaled(run.result, Dec(125, 0 - 3), 0)
        /\ run.rate = Str(<<"1", "5", "0", "b", "p", "s">>)
              => Scaled(run.result, Dec(15, 0 - 3), 0)
        /\ run.rate = Str(<<"1", "5", "0", "0">>)
              => Scaled(run.result, Dec(15, 0 - 2), 0)

\* exactly 1000 without a marker has been read as basis points
C20_Witness ==
    /\ run.pc = "return"
    /\ run.rate = Str(<<"1", "0", "0", "0">>)
    /\ Scaled(run.result, Dec(1, 0 - 1), 0)

\* the rate input is a number up to 1 without a marker
FractionalInput ==
    /\ ~IsEmptyRaw(run.rate)
    /\ ~Contains(RateText, <<"b", "p", "s">>)
    /\ ~Contains(RateText, <<"%">>)
    /\ normalize_decimal(Str(RateText)).k = "dec"
    /\ DecCmp(normalize_decimal(Str(RateText)), Dec(1, 0)) <= 0

\* C21: for every number x up to 1 without a marker, normalize_rate gives x,
\* and normalize_rate of that result gives it again.
C21_RateIdempotent ==
    FractionalInput =>
        /\ run.pc \in {"return", "again"} =>
              /\ run.result.k = "dec"
              /\ DecCmp(run.result, normalize_decimal(Str(RateText))) = 0
        /\ run.pc = "again" => run.again = run.result

\* a fraction written in scientific notation by str() has gone through twice
C21_Witness ==
    /\ run.pc = "again"
    /\ run.rate = Dec(1, 0 - 7)
    /\ run.again = Dec(1, 0 - 7)

\* normalizer fn has returned or raised
Normalized(fn) == run.pc = "return" /\ run.fn = fn
\* the number a string holds once "," is read as ".", or an exception
CommaAsPoint(v) == Decimal(replace(strip(v.s), <<",">>, <<".">>))
\* the integer part of a finite decimal d, the fraction discarded
Truncated(d) ==
    IF d.x >= 0 THEN d.m * Pow10(d.x)
    ELSE IF d.m < 0 THEN 0 - ((0 - d.m) \div Pow10(0 - d.x))
    ELSE d.m \div Pow10(0 - d.x)

\* C22: normalize_int of a decimal string with a fractional part is the
\* integer part of its value, the fraction discarded; of a boolean it is
\* null; of an integer it is the integer.
C22_IntTruncates ==
    Normalized("int") =>
        /\ (/\ run.value.k = "str"
            /\ CommaAsPoint(run.value).k = "dec"
            /\ CommaAsPoint(run.value).x < 0) =>
               run.result = Int_(Truncated(CommaAsPoint(run.value)))
        /\ run.value.k = "bool" => run.result = None
        /\ run.value.k = "int" => run.result = run.value

\* a decimal-like string: an optional sign, then digits and separators, at
\* least one digit
Unsigned(s) == IF s # <<>> /\ s[1] \in {"-", "+"} THEN Tail(s) ELSE s
DecimalLike(s) ==
    /\ \A i \in 1..Len(Unsigned(s)) : IsDigit(Unsigned(s)[i]) \/ Unsigned(s)[i] \in {",", "."}
    /\ \E i \in 1..Len(Unsigned(s)) : IsDigit(Unsigned(s)[i])
Separators(s) == {i \in 1..Len(s) : s[i] \in {",", "."}}
\* s with its last separator as the decimal point and the others removed
GroupsRemoved(s, last) ==
    SelectSeq(SubSeq(s, 1, last - 1), LAMBDA c : c \notin {",", "."})
    \o <<".">> \o SubSeq(s, last + 1, Len(s))
\* the result r of normalize_decimal is what the rule gives for the text s
DecimalRule(s, r) ==
    /\ Cardinality(Separators(s)) = 1 => r = Decimal(replace(s, <<",">>, <<".">>))
    /\ Cardinality(Separators(s)) > 1 =>
          r = Decimal(GroupsRemoved(s, SeqMax(Separators(s))))

\* C23: normalize_decimal of a decimal-like string with one "," or "." is
\* the number parsed with "," read as "."; with more separators, all but
\* the last are removed; "1.234.56" and "1.234,56" give 1234.56.
C23_DecimalSeparators ==
    (Normalized("decimal") /\ run.value.k = "str" /\ DecimalLike(strip(run.value.s))) =>
        /\ DecimalRule(strip(run.value.s), run.result)
        /\ run.value \in {Str(<<"1", ".", "2", "3", "4", ".", "5", "6">>),
                          Str(<<"1", ".", "2", "3", "4", ",", "5", "6">>)}
              => run.result = Dec(123456, 0 - 2)

\* "1.234,56" has been normalized to 1234.56
C23_Witness ==
    /\ Normalized("decimal")
    /\ run.value = Str(<<"1", ".", "2", "3", "4", ",", "5", "6">>)
    /\ run.result = Dec(123456, 0 - 2)

\* the type of value each normalizer returns, null apart
TypeOf(fn) ==
    CASE fn = "date" -> {"date"}
      [] fn \in {"decimal", "rate"} -> {"dec", "nan", "snan", "inf"}
      [] fn = "int" -> {"int"}
      [] OTHER -> {"str"}

\* C24: every normalizer, for every raw value, returns a value of its type
\* or null and never raises; normalize_category returns one of PAID, ACTIVE,
\* OVERDUE, UNKNOWN.
C24_NormalizersTotal ==
    run.pc = "return" =>
        /\ ~IsRaise(run.result)
        /\ run.result = None \/ run.result.k \in TypeOf(run.fn)
        /\ run.fn = "category" =>
              run.result \in {Str(PAID), Str(ACTIVE), Str(OVERDUE), Str(UNKNOWN)}

\* ---------------------------------------------------------------------------
\* C25  In every run that reaches the load phase the steps complete in this
\* order: drop-if-exists of the staging object, create of the staging object,
\* relational delete, the chunk appends to both destinations, relational
\* commit, publish (create-if-absent and swap), drop of the disposed object,
\* Batch SUCCESS. Each step is preceded by the one before it, only the appends
\* repeat; at the commit both destinations have received every source row;
\* the swap happens outside the transaction, and the Batch is SUCCESS only
\* after the drop that ends the publish.
Stage(step) ==
    CASE step = "drop_stale_staging" -> 1
      [] step = "create_staging" -> 2
      [] step = "delete" -> 3
      [] step \in {"insert_data", "bulk_create"} -> 4
      [] step = "commit" -> 5
      [] step = "publish_create" -> 6
      [] step = "swap_tables" -> 7
      [] step = "publish_drop" -> 8
      [] step = "success" -> 9

Follows(a, b) == b = a + 1 \/ (a = 4 /\ b = 4)

StepsDone == {hist.steps[i][1] : i \in 1..Len(hist.steps)}

RECURSIVE RowsWritten(_, _)
RowsWritten(steps, step) ==
    IF steps = <<>> THEN 0
    ELSE (IF Head(steps)[1] = step THEN Head(steps)[2] ELSE 0)
         + RowsWritten(Tail(steps), step)

C25_LoadPhaseOrder ==
    /\ hist.steps # <<>> => Stage(hist.steps[1][1]) = 1
    /\ \A i \in 1..(Len(hist.steps) - 1) :
         Follows(Stage(hist.steps[i][1]), Stage(hist.steps[i + 1][1]))
    /\ ("commit" \in StepsDone /\ run.pc # "idle") =>
         /\ RowsWritten(hist.steps, "insert_data") = Len(qs)
         /\ RowsWritten(hist.steps, "bulk_create") = Len(qs)
         /\ Len(hist.staged) = Len(qs)
         /\ ~run.in_tx
    /\ run.in_tx => "publish_create" \notin StepsDone
    /\ (hist.steps # <<>> /\ hist.statuses[Len(hist.statuses)] = SUCCESS) =>
         {"commit", "swap_tables", "publish_drop"} \subseteq StepsDone
    /\ run.pc \in {"begin_load", "load_row", "flush_ch", "flush_pg", "commit",
                   "publish_create", "publish_swap", "publish_drop", "finalize"}
         => Stage(hist.steps[Len(hist.steps)][1]) + 1
              >= Stage(IF run.pc = "begin_load" THEN "delete"
                       ELSE IF run.pc \in {"load_row", "flush_ch", "flush_pg"}
                       THEN "insert_data"
                       ELSE IF run.pc = "publish_swap" THEN "swap_tables"
                       ELSE IF run.pc = "finalize" THEN "success"
                       ELSE run.pc)

\* a run that went through every step and ended SUCCESS
C25_Witness ==
    /\ Ended
    /\ TheBatch.status = SUCCESS
    /\ Len(hist.steps) = 10
    /\ hist.steps[4][1] = "insert_data" /\ hist.steps[5][1] = "bulk_create"
    /\ hist.steps[10][1] = "success"


\* ---------------------------------------------------------------------------
\* C26  On publish, if the published destination table did not exist before
\* the run the staging object is renamed into its place, and if it existed the
\* two are exchanged; in both cases the disposed object is dropped, and after
\* a successful publish the destination holds the new rows and no object with
\* the run's staging name exists.
Sent(stmt) == \E i \in 1..Len(hist.ch_log) : hist.ch_log[i] = stmt

ExistedBefore == Published(hist.pre_tables).exists

PublishedNewRows ==
    /\ Published(ch_tables) = [exists |-> TRUE, rows |-> hist.staged]
    /\ ~Exists(ch_db, staging)

C26_PublishRenamesOrExchanges ==
    (run.pc # "idle" /\ "swap_tables" \in StepsDone) =>
        /\ Sent("RENAME TABLE") <=> ~ExistedBefore
        /\ Sent("EXCHANGE TABLES") <=> ExistedBefore
        /\ "publish_drop" \in StepsDone => PublishedNewRows

\* ---------------------------------------------------------------------------
\* C27  For a load pass over N valid rows with chunk size C: each destination
\* receives exactly ceil(N/C) bulk writes, every write but the last has
\* exactly C rows and the last has between 1 and C rows, the concatenation of
\* the writes to each destination is the source rows in source order, and
\* both buffers are empty when the pass ends.
Writes(step) ==
    LET at == {i \in 1..Len(hist.steps) : hist.steps[i][1] = step}
    IN  [j \in 1..Cardinality(at) |->
            hist.steps[CHOOSE i \in at : Cardinality({h \in at : h <= i}) = j][2]]

Chunked(w, n) ==
    /\ Len(w) = (n + chunk_size - 1) \div chunk_size
    /\ \A j \in 1..(Len(w) - 1) : w[j] = chunk_size
    /\ w # <<>> => w[Len(w)] \in 1..chunk_size

PassEnded == run.pc \in {"commit", "publish_create"}

C27_ChunkedWrites ==
    PassEnded =>
        /\ Chunked(Writes("insert_data"), Len(qs))
        /\ Chunked(Writes("bulk_create"), Len(qs))
        /\ hist.staged = NewAnalytical
        /\ hist.created = [i \in 1..Len(qs) |->
                              NewRelationalRow(qs[i], RowResult(i).normalized)]
        /\ run.ch_batch = <<>> /\ run.pg_batch = <<>>
        /\ run.record_count = Len(qs)

\* the pass over the longest source has ended: full chunks and a remainder
C27_Witness ==
    /\ PassEnded
    /\ Len(qs) = MaxLoad
    /\ Len(Writes("insert_data")) > 1
    /\ Len(hist.created) = MaxLoad

\* ---------------------------------------------------------------------------
\* C28  If an error is raised inside the load pass (by the relational delete,
\* a relational bulk insert, an analytical chunk insert or the commit), then
\* after the run the relational tables equal their pre-run contents, the
\* published analytical table is unchanged, the Batch is FAILED, and the rows
\* already appended to the staging object are still in it.
LoadPassFailed ==
    /\ Ended
    /\ IsRaise(run.result)
    /\ hist.steps # <<>>
    /\ Stage(hist.steps[Len(hist.steps)][1]) \in {2, 3, 4}

C28_LoadErrorRollsBack ==
    LoadPassFailed =>
        /\ loans = hist.pre_loans
        /\ plans = hist.pre_plans
        /\ Published(ch_tables) = Published(hist.pre_tables)
        /\ TheBatch.status = FAILED
        /\ Exists(ch_db, staging)
        /\ ch_tables[<<ch_db, staging>>].rows = hist.staged

\* a relational insert failed after a chunk had been appended to staging, in
\* a run that had rows to replace
C28_Witness ==
    /\ LoadPassFailed
    /\ run.result = Raise("DatabaseError")
    /\ hist.staged # <<>>
    /\ Partition(hist.pre_loans, hist.pre_plans) # {}
    /\ Published(hist.pre_tables).exists

\* ---------------------------------------------------------------------------
\* C29  A run for (tenant, loan type, dataset kind) leaves unchanged, whatever
\* its outcome: the relational rows of other tenants, of the other loan type
\* and of the other dataset kind; every analytical table other than the
\* published table and the staging object of its own (dataset kind, loan
\* type); and every Batch other than its own.
Own(x, dataset_type) ==
    /\ run.dataset_type = dataset_type
    /\ x.tenant = run.batch.tenant
    /\ x.loan_type = run.loan_type

OwnTables == {<<ch_db, target_table>>, <<ch_db, staging>>}

Running == run.pc \notin {"idle", "spawned"}

C29_FrameOfARun ==
    /\ (Running /\ ~Resolved) =>
         /\ loans = hist.pre_loans /\ plans = hist.pre_plans
         /\ ch_tables = hist.pre_tables
         /\ batches = hist.pre_batches
    /\ (Running /\ Resolved) =>
         /\ {x \in loans : ~Own(x, CREDIT)} = {x \in hist.pre_loans : ~Own(x, CREDIT)}
         /\ {x \in plans : ~Own(x, PAYMENT_PLAN)}
              = {x \in hist.pre_plans : ~Own(x, PAYMENT_PLAN)}
         /\ DOMAIN ch_tables \ OwnTables = DOMAIN hist.pre_tables \ OwnTables
         /\ \A n \in DOMAIN ch_tables \ OwnTables : ch_tables[n] = hist.pre_tables[n]
         /\ DOMAIN hist.pre_batches \subseteq DOMAIN batches
         /\ \A id \in DOMAIN hist.pre_batches \ {run.batch_id} :
              batches[id] = hist.pre_batches[id]

\* a run replaced its partition and its published table while rows of the
\* other loan type, of the other dataset kind and of another tenant, another
\* published table of the tenant and another Batch were there
C29_Witness ==
    /\ Ended
    /\ TheBatch.status = SUCCESS
    /\ Partition(loans, plans) # Partition(hist.pre_loans, hist.pre_plans)
    /\ \E x \in hist.pre_loans \cup hist.pre_plans :
          x.tenant = run.batch.tenant /\ x.loan_type # run.loan_type
    /\ \E x \in hist.pre_loans \cup hist.pre_plans : x.tenant # run.batch.tenant
    /\ \E n \in DOMAIN hist.pre_tables \ OwnTables : n[1] = ch_db
    /\ \E n \in DOMAIN hist.pre_tables : n[1] # ch_db
    /\ DOMAIN hist.pre_batches \ {run.batch_id} # {}

\* ---------------------------------------------------------------------------
\* C30  When a run ends FAILED_VALIDATION, the persisted error records of the
\* Batch are exactly the errors collected in the dry pass: for each invalid
\* row, one record per error emitted for it, with the row's 1-based ordinal,
\* the error kind, the field name and the raw row; no record refers to a
\* valid row, and the summary message states the number of invalid rows.
\* When a run ends SUCCESS, no error record is persisted for the Batch.
OwnErrors == SelectSeq(batch_errors, LAMBDA e : e.batch = run.batch_id)

ErrorsOfRow(i) == SelectSeq(OwnErrors, LAMBDA e : e.row_number = i)

EmittedForRow(i) ==
    IF HasErrors(RowResult(i))
    THEN [j \in 1..Len(RowResult(i).errors) |->
            BatchError(run.batch_id, i, RowResult(i).errors[j].code,
                       RowResult(i).errors[j].field, qs[i].payload)]
    ELSE IF ~RefKnown(i)
    THEN <<BatchError(run.batch_id, i, UNKNOWN_LOAN_ID, "loan_account_number",
                      qs[i].payload)>>
    ELSE <<>>

C30_ErrorRecordsAreTheDryPassErrors ==
    /\ (Ended /\ TheBatch.status = FAILED_VALIDATION) =>
         /\ \A i \in 1..Len(qs) : ErrorsOfRow(i) = EmittedForRow(i)
         /\ \A j \in 1..Len(OwnErrors) :
              /\ OwnErrors[j].row_number \in 1..Len(qs)
              /\ RowInvalid(OwnErrors[j].row_number)
              /\ j > 1 => OwnErrors[j - 1].row_number <= OwnErrors[j].row_number
         /\ TheBatch.error_message =
              [k |-> "validation",
               n |-> Cardinality({i \in 1..Len(qs) : RowInvalid(i)})]
    /\ (Ended /\ TheBatch.status = SUCCESS) => OwnErrors = <<>>

\* ---------------------------------------------------------------------------
\* C31  For every field whose normalizer produced a non-null value below the
\* declared minimum or above the declared maximum, validate emits
\* OUT_OF_RANGE for that field and keeps the out-of-range value in the
\* normalized slot.
Outside(v, spec) ==
    CASE v.k \in {"int", "dec"} -> ~Within(v, spec)
      [] v.k = "inf" -> IF v.n THEN spec.min_value # None ELSE spec.max_value # None
      [] OTHER -> FALSE

NormalizedOf(spec) == normalize_field(spec.field_type, RawOf(spec))

OutOfRangeFields ==
    {i \in 1..Len(Schema) :
        /\ ~IsEmptyRaw(RawOf(Schema[i]))
        /\ ~IsRaise(NormalizedOf(Schema[i]))
        /\ NormalizedOf(Schema[i]) # None
        /\ Outside(NormalizedOf(Schema[i]), Schema[i])}

C31_OutOfRangeReported ==
    Validated =>
        \A i \in OutOfRangeFields :
            /\ ~IsRaise(run.result)
            /\ ErrorsOf(OUT_OF_RANGE, Schema[i]) # {}
            /\ run.result.normalized[Schema[i].name] = NormalizedOf(Schema[i])

\* ---------------------------------------------------------------------------
\* C32  For a category field with a non-empty raw value that matches no
\* synonym set: if the field is required, validate emits INVALID_CATEGORY and
\* the row is invalid; if it is not required, validate emits no error and the
\* normalized slot is UNKNOWN. An absent or empty raw value of a required
\* category field yields MISSING_FIELD, not INVALID_CATEGORY.
NoSynonym(v) ==
    /\ ~IsEmptyRaw(v)
    /\ strip(lower(str(v))) \notin PaidWords \cup ActiveWords \cup OverdueWords

ErrorsFor(spec) ==
    {j \in 1..Len(run.result.errors) : run.result.errors[j].field = spec.name}

CategoryRule(spec) ==
    /\ (NoSynonym(RawOf(spec)) /\ spec.required) =>
         /\ ~IsRaise(run.result)
         /\ ErrorsOf(INVALID_CATEGORY, spec) # {}
    /\ (NoSynonym(RawOf(spec)) /\ ~spec.required) =>
         /\ ~IsRaise(run.result)
         /\ ErrorsFor(spec) = {}
         /\ run.result.normalized[spec.name] = Str(UNKNOWN)
    /\ (IsEmptyRaw(RawOf(spec)) /\ spec.required) =>
         /\ ~IsRaise(run.result)
         /\ ErrorsOf(MISSING_FIELD, spec) # {}
         /\ ErrorsOf(INVALID_CATEGORY, spec) = {}

C32_UnknownCategory ==
    Validated =>
        \A i \in 1..Len(Schema) :
            Schema[i].field_type = "category" => CategoryRule(Schema[i])

\* ---------------------------------------------------------------------------
\* C33  The sync endpoint prevents concurrent syncs per tenant and loan type:
\* for every interleaving of concurrent sync requests, at most one Batch per
\* (tenant, loan type) is in STARTED or PROCESSING at any time, and a request
\* answered with a conflict has created no Batch.
C33_OneActiveBatchPerKey ==
    /\ \A c \in Clients, l \in {RETAIL, COMMERCIAL} :
          Cardinality(ActiveBatches(c.tenant_code, l)) <= 1
    /\ \A i \in 1..MaxRequests :
          Handler(i).response = 409 => Handler(i).batch_id = NoId

\* ---------------------------------------------------------------------------
\* C34  Every run that ends SUCCESS over a non-empty source has
\* record_count = valid_rows = total_rows, also when the source rows are
\* changed by a concurrent upload between the count, the dry pass and the
\* load pass.
C34_SuccessCountsAgree ==
    (Ended /\ TheBatch.status = SUCCESS /\ TheBatch.total_rows > 0) =>
        /\ TheBatch.record_count = TheBatch.valid_rows
        /\ TheBatch.valid_rows = TheBatch.total_rows

\* ---------------------------------------------------------------------------
\* C35  After the Batch is created only the orchestrator writes its status,
\* error_message and completed_at: the step in which the background runner
\* of the sync endpoint takes over from run_ingestion, returned or raised,
\* leaves these three fields of every Batch as the orchestrator wrote them.
RunnerTakesOver == run.pc = "done" /\ run'.pc = "idle"
C35_CallerNeverWritesBatch ==
    [][RunnerTakesOver =>
          \A id \in DOMAIN batches :
              /\ batches'[id].status = batches[id].status
              /\ batches'[id].error_message = batches[id].error_message
              /\ batches'[id].completed_at = batches[id].completed_at]_vars

\* ---------------------------------------------------------------------------
\* C36  A run invoked with an existing batch id reads the source rows and
\* writes the destinations of the tenant named by its tenant argument, never
\* those of another tenant, and no step changes the loan type of a Batch.
ChangedLoans == (loans' \ loans) \cup (loans \ loans')
C36_RunStaysWithItsTenant ==
    [][/\ (Running /\ Resolved) => bank_code = run.tenant_id
       /\ \A x \in ChangedLoans : x.tenant = run.tenant_id
       /\ \A id \in DOMAIN batches :
             batches'[id].loan_type = batches[id].loan_type]_vars

\* ---------------------------------------------------------------------------
\* C37  If the process executing a run dies while its Batch is STARTED or
\* PROCESSING, a later sync request for the same tenant and loan type is
\* eventually accepted: the stale Batch does not block the key forever.
\* The key followed is (B1, RETAIL), whose requests keep coming.
Stale(loan_type) ==
    \E id \in run.dead : batches[id].tenant = B1 /\ batches[id].loan_type = loan_type
\* a request for the key has passed the check for an active Batch
Accepted(loan_type) ==
    \E i \in 1..MaxRequests :
        /\ Handler(i).pc = "create"
        /\ Handler(i).tenant = B1 /\ Handler(i).loan_type = loan_type
C37_StaleBatchDoesNotBlock == Stale(RETAIL) ~> Accepted(RETAIL)

\* ---------------------------------------------------------------------------
\* C38  The version and current-data endpoints answer every request in
\* which bank_code, loan_type or dataset_type is missing, or dataset_type is
\* neither CREDIT nor PAYMENT_PLAN, with a 400 response: such a request
\* never ends in an exception and never gets the answer of the data query.
BadRequest(params) ==
    \/ normalize_bank_code(params.bank_code) = <<>>
    \/ normalize_loan_type(params.loan_type) = <<>>
    \/ params.dataset_type = None
    \/ upper(strip(params.dataset_type.s)) \notin ALLOWED_DATASET_TYPES
C38_BadRequestsAnswered400 ==
    (run.pc = "return" /\ BadRequest(run.params)) =>
        /\ ~IsRaise(run.result)
        /\ run.result.k = "Response"
        /\ run.result.status = 400

====
